---- MODULE Spec2Model ----
(***************************************************************************)
(* Verification model of the AutoGraph graph-synthesis pipeline:           *)
(*   FileUtils / FileParser  ->  RelationshipMapper  ->                    *)
(*   EnhancedGraphBuilder    ->  convert_analysis_result_to_frontend_format*)
(*   -> _build_viz_from_frontend, and CodebaseAnalyzer.analyze_codebase.   *)
(*                                                                         *)
(* Strings built with '/' (paths) or '_' (node ids, identifiers) are       *)
(* modelled as sequences of their segments, so that the code's substring   *)
(* tests ('/src/' in p, 'get_' in name, cid.split('_')) become tests on    *)
(* segments.  Files are numbered; FileTab gives the content of each.       *)
(***************************************************************************)
EXTENDS Integers, Sequences, FiniteSets, TLC

\* ------------------------------------------------------------------------
\* Bounds of the model
\* ------------------------------------------------------------------------
MaxFiles == 6
\* most calls edges drawn between the implementation nodes of two systems;
\* a pair has none, MaxW - 1 or MaxW of them
MaxW == 3
\* most files of a directory analysed twice
MaxDetFiles == 2
\* most files of a directory given to analyze_codebase
MaxAnFiles == 3
\* most files of a directory given to parse_codebase
MaxParseFiles == 3
\* most files of a directory analysed with a naming service
MaxNameFiles == 2
\* most analyze_file_semantics calls made on one SemanticAnalyzer
MaxCalls == 2

\* ------------------------------------------------------------------------
\* The codebases: a universe of files a directory may contain
\* ------------------------------------------------------------------------
Root == "proj"

FileTab ==
  << [segs |-> <<"src", "pkg", "models", "core.py">>, stem |-> "core", suffix |-> ".py",
      classes |-> <<"alpha">>,
      functions |-> << <<"run">>, <<"parse", "data">> >>,
      imports |-> << >>, text |-> {}, parses |-> TRUE],
     [segs |-> <<"src", "pkg", "models", "_components", "card.py">>, stem |-> "card", suffix |-> ".py",
      classes |-> <<"beta">>,
      functions |-> << <<"render">> >>,
      imports |-> << <<"alpha">>, <<"pkg", "models", "core">> >>, text |-> {}, parses |-> TRUE],
     [segs |-> <<"src", "pkg", "config", "settings.py">>, stem |-> "settings", suffix |-> ".py",
      classes |-> << >>,
      functions |-> << <<"load", "settings">> >>,
      imports |-> << >>, text |-> {}, parses |-> TRUE],
     [segs |-> <<"src", "pkg", "api", "routes.py">>, stem |-> "routes", suffix |-> ".py",
      classes |-> << >>,
      functions |-> << <<"serve">> >>,
      imports |-> << <<"pkg", "models", "core">> >>, text |-> {"openai", "jwt"}, parses |-> TRUE],
     [segs |-> <<"src", "pkg", "actions", "core.py">>, stem |-> "core", suffix |-> ".py",
      classes |-> << >>,
      functions |-> << <<"dispatch">> >>,
      imports |-> << >>, text |-> {}, parses |-> TRUE],
     [segs |-> <<"src", "pkg", "managers", "store.py">>, stem |-> "store", suffix |-> ".py",
      classes |-> <<"gamma">>,
      functions |-> << <<"get", "item">>, <<"compute">>, <<"run">> >>,
      imports |-> << >>, text |-> {}, parses |-> TRUE],
     [segs |-> <<"tests", "test_core.py">>, stem |-> "test_core", suffix |-> ".py",
      classes |-> << >>,
      functions |-> << <<"check", "core">> >>,
      imports |-> << <<"routes">> >>, text |-> {}, parses |-> TRUE],
     [segs |-> <<"app.py">>, stem |-> "app", suffix |-> ".py",
      classes |-> << >>,
      functions |-> << <<"main">> >>,
      imports |-> << <<"routes">> >>, text |-> {}, parses |-> TRUE],
     [segs |-> <<"logo.png">>, stem |-> "logo", suffix |-> ".png",
      classes |-> << >>, functions |-> << >>,
      imports |-> << >>, text |-> {}, parses |-> TRUE],
     [segs |-> <<"docs", "notes.md">>, stem |-> "notes", suffix |-> ".md",
      classes |-> << >>, functions |-> << >>,
      imports |-> << >>, text |-> {}, parses |-> TRUE],
     [segs |-> <<"src", "pkg", "api", "broken.py">>, stem |-> "broken", suffix |-> ".py",
      classes |-> << >>, functions |-> << >>,
      imports |-> << >>, text |-> {}, parses |-> FALSE] >>

Files == 1..Len(FileTab)

\* The string tests between two names of FileTab.  x in y: x is y or a proper
\* part of y; the stems and the import parts of FileTab have one such pair.
ProperParts == {<<"core", "test_core">>}
SubstringOf(x, y) == x = y \/ <<x, y>> \in ProperParts
\* y.startswith(x): no stem of FileTab is a proper prefix of a first import part
StartsWith(y, x) == x = y

\* ------------------------------------------------------------------------
\* Generic helpers on sequences
\* ------------------------------------------------------------------------
Range(s) == {s[i] : i \in 1..Len(s)}

\* Op applied to v: a value computed once and read several times (a local variable)
With(v, Op(_)) == Op(v)

RECURSIVE SeqOfSet(_)
SeqOfSet(S) == IF S = {} THEN << >>
               ELSE LET x == CHOOSE y \in S : TRUE IN <<x>> \o SeqOfSet(S \ {x})

\* all the orders in which a collection without a defined order may be enumerated
Orders(S) == {s \in [1..Cardinality(S) -> S] : \A i, j \in 1..Cardinality(S) : i # j => s[i] # s[j]}

Count(s, x) == Cardinality({i \in 1..Len(s) : s[i] = x})

\* first index of x in s, 0 when absent
IndexOf(s, x) == IF x \in Range(s) THEN CHOOSE i \in 1..Len(s) : s[i] = x /\ \A j \in 1..(i-1) : s[j] # x
                 ELSE 0

RECURSIVE Flatten(_)
Flatten(ss) == IF ss = << >> THEN << >> ELSE Head(ss) \o Flatten(Tail(ss))

RECURSIVE Product(_)
\* the sequences that take their i-th element in the i-th set of ss
Product(ss) == IF ss = << >> THEN {<< >>}
               ELSE {<<x>> \o rest : x \in Head(ss), rest \in Product(Tail(ss))}

RECURSIVE Dedup(_)
\* keys of a dict filled in the order of s: first occurrences, in order
Dedup(s) == IF s = << >> THEN << >>
            ELSE LET r == Dedup(SubSeq(s, 1, Len(s) - 1))
                     x == s[Len(s)]
                 IN IF x \in Range(r) THEN r ELSE Append(r, x)

\* ------------------------------------------------------------------------
\* Paths (file_utils.py, graph_models.py)
\* ------------------------------------------------------------------------
\* str(file_path) of a discovered file, split at '/'
PathOf(f) == <<Root>> \o FileTab[f].segs

\* Path(fp).parent.name
ParentName(f) == With(PathOf(f), LAMBDA p : p[Len(p) - 1])

\* any(seg in p for seg in ['/tests/','/test/','/docs/','/examples/',...])
NonCoreSegs == {"tests", "test", "docs", "examples", "example", "static", "assets"}
IsNonCore(f) == With(PathOf(f), LAMBDA p : \E i \in 1..(Len(p) - 1) : p[i] \in NonCoreSegs)

categorize_file(f) ==
  With(Range(PathOf(f)), LAMBDA parts :
  With(FileTab[f].suffix, LAMBDA suffix :
    IF parts \cap {"test", "tests", "spec", "specs"} # {} THEN "test"
    ELSE IF parts \cap {"config", "conf", "settings"} # {} THEN "config"
    ELSE IF parts \cap {"docs", "documentation", "readme"} # {} THEN "docs"
    ELSE IF suffix \in {".html", ".css", ".js", ".jsx", ".ts", ".tsx"} THEN "frontend"
    ELSE IF suffix \in {".py", ".java", ".go", ".rb", ".php"} THEN "backend"
    ELSE IF suffix \in {".json", ".xml", ".yaml", ".yml", ".csv"} THEN "data"
    ELSE "other"))

should_include_file(f) ==
  /\ FileTab[f].suffix \in {".py", ".js", ".jsx", ".ts", ".tsx", ".java", ".go", ".rb", ".php",
                            ".html", ".css", ".json", ".xml", ".yaml", ".yml", ".md", ".txt"}
  /\ Range(PathOf(f)) \cap {".git", ".svn", ".hg", "__pycache__", "node_modules", ".venv", "venv",
                            "env", ".env", "build", "dist", "target", "bin", "obj"} = {}

\* '/src/' in p : a segment "src" that is neither the first nor the last
SrcIndex(f) ==
  With(PathOf(f), LAMBDA p :
    IF \E i \in 2..(Len(p) - 1) : p[i] = "src"
    THEN CHOOSE i \in 2..(Len(p) - 1) : p[i] = "src" /\ \A j \in 2..(i-1) : p[j] # "src"
    ELSE 0)

\* p.split('/src/', 1)[1], split at '/'
RelOf(f) == With(PathOf(f), LAMBDA p : SubSeq(p, SrcIndex(f) + 1, Len(p)))

\* '/<seg>/' in rel : the segment is neither the first nor the last of rel
RelHas(rel, seg) == \E i \in 2..(Len(rel) - 1) : rel[i] = seg
RelHas2(rel, s1, s2) == \E i \in 2..(Len(rel) - 2) : rel[i] = s1 /\ rel[i+1] = s2

\* ------------------------------------------------------------------------
\* State
\* ------------------------------------------------------------------------
VARIABLES
  pc,                    \* position in the pipeline
  dir,                   \* the files of the analysed directory
  files,                 \* parsed_files keys, in the order of discovery
  relationship_results,  \* RelationshipMapper result, aligned with files
  hld_nodes,             \* BUSINESS nodes (dict, insertion order)
  lld_nodes,             \* IMPLEMENTATION nodes (dict, insertion order)
  system_nodes,          \* SYSTEM nodes (dict, insertion order)
  edges,                 \* Graph.edges
  viz_nodes,             \* viz['nodes']
  viz_edges,             \* viz['edges']
  do_cluster,            \* len(system) > 5 in _build_viz_from_frontend
  path_kind,             \* what codebase_path names: "missing", "file" or "dir"
  result,                \* the dict analyze_codebase returns
  run,                   \* 1 in the first run of the pipeline, 2 in the second
  prev_nodes,            \* viz['nodes'] of the previous run
  prev_edges,            \* viz['edges'] of the previous run
  parsed_files,          \* FileParser.parsed_files: its keys, in insertion order
  failed_files,          \* FileParser.failed_files
  total_files,           \* FileParser.total_files
  successful_parses,     \* FileParser.successful_parses
  broken,                \* the files whose content has a syntax error at the last call
  parsing_result,        \* what the last parse_codebase returned
  position,              \* the 'position' of every node of viz['nodes'], in that order
  service,               \* what the naming service does when it is asked for a name
  validation_issues,     \* 'validation_issues' of the dict analyze_codebase returns
  client,                \* LLMClient.client: "None", or "OpenAI" when the configuration is complete
  cache,                 \* SemanticAnalyzer.cache (dict, insertion order)
  analysis_results,      \* SemanticAnalyzer.analysis_results (dict, insertion order)
  cache_files,           \* the files of cache/llm, written by LLMClient
  history,               \* every analyze_file_semantics call on the instance in use, and how it ended
  engine,                \* the 'engine' form field of the upload: "legacy" or "langgraph"
  session,               \* analysis_sessions[analysis_id] of the upload: status, message, progress
  stored,                \* analysis_results of the web app: the uploads whose graph was stored
  state,                 \* the WorkflowState of the LangGraph run, << >> when there is none
  steps,                 \* the workflow nodes run so far, with the progress of the state after each
  codebase_path,         \* the codebase_path argument of every analysis run
  at,                    \* where every analysis run is
  disk,                  \* the files under ./graph: for each, the runs that wrote it, in order
  errors                 \* PythonASTParser.errors of the FileParser's python_parser

vars == <<pc, dir, files, relationship_results, hld_nodes, lld_nodes, system_nodes,
          edges, viz_nodes, viz_edges, do_cluster, path_kind, result,
          run, prev_nodes, prev_edges, parsed_files, failed_files, total_files,
          successful_parses, broken, parsing_result, position, service,
          validation_issues, client, cache, analysis_results, cache_files, history,
          engine, session, stored, state, steps, codebase_path, at, disk, errors>>

\* the fields of a FileParser, and what its last call was given and returned
parser == <<parsed_files, failed_files, total_files, successful_parses, broken, parsing_result,
           errors>>

\* the fields of a SemanticAnalyzer, its LLMClient, and the calls made on it
analyzer == <<client, cache, analysis_results, cache_files, history>>

\* the upload being served by the web app, and its workflow
web == <<engine, session, stored, state, steps>>

\* the analysis runs of one working directory and the files they export
exporting == <<codebase_path, at, disk>>

\* what the graph pipeline leaves alone
others == <<path_kind, result, run, prev_nodes, prev_edges, parser, service, validation_issues,
            analyzer, web, exporting>>

\* None, for the optional parent id
NoneId == << >>

GraphNode(id, name, type, level, fs, fns, cls) ==
  [id |-> id, name |-> name, type |-> type, level |-> level, files |-> fs,
   parent |-> NoneId, children |-> << >>, functions |-> fns, classes |-> cls]

GraphEdge(from, to, type) == [from_node |-> from, to_node |-> to, type |-> type]

\* d[key] = node on a dict kept as a sequence: replace in place, or append
DictPut(d, n) ==
  IF \E i \in 1..Len(d) : d[i].id = n.id
  THEN [i \in 1..Len(d) |-> IF d[i].id = n.id THEN n ELSE d[i]]
  ELSE Append(d, n)

RECURSIVE DictPutAll(_, _)
DictPutAll(d, ns) == IF ns = << >> THEN d ELSE DictPutAll(DictPut(d, Head(ns)), Tail(ns))

DictGet(d, id) == CHOOSE n \in Range(d) : n.id = id
DictHas(d, id) == \E n \in Range(d) : n.id = id

\* ------------------------------------------------------------------------
\* RelationshipMapper (relationship_mapper.py)
\* ------------------------------------------------------------------------
\* first file, in dict order, whose stem starts the import or that declares
\* a class named like the import; 0 for None
_find_import_source(imp, fs) ==
  LET hit(f) == \/ StartsWith(imp[1], FileTab[f].stem)
                \/ (Len(imp) = 1 /\ imp[1] \in Range(FileTab[f].classes))
  IN IF \E i \in 1..Len(fs) : hit(fs[i])
     THEN fs[CHOOSE i \in 1..Len(fs) : hit(fs[i]) /\ \A j \in 1..(i-1) : ~hit(fs[j])]
     ELSE 0

\* the Python file of fs that was parsed last; 0 when there is none
LastPython(fs) ==
  LET py == {i \in 1..Len(fs) : FileTab[fs[i]].suffix = ".py"} IN
  IF py = {} THEN 0 ELSE fs[CHOOSE i \in py : \A j \in py : j <= i]

\* parsed_files[f]['imports'] once parse_codebase has returned.  The entry
\* holds what get_imports returned, the list python_parser.imports itself
\* (ast_parser.py:92-94, file_parser.py:94); parse_file clears that list when
\* the next Python file has parsed (ast_parser.py:36), before it takes the
\* list of the new visitor.  The Python file parsed last keeps its imports,
\* the entries of the others read [].
imports_entry(f, fs) == IF f = LastPython(fs) THEN FileTab[f].imports ELSE << >>

import_graph(f, fs) ==
  {_find_import_source(imports_entry(f, fs)[k], fs) : k \in 1..Len(imports_entry(f, fs))} \ {0, f}

\* function_calls without the test other_file != file_path
function_calls_WithItself(f, fs) ==
  {o \in Range(fs) : Range(FileTab[f].functions) \cap Range(FileTab[o].functions) # {}}

function_calls(f, fs) ==
  {o \in Range(fs) : o # f /\ Range(FileTab[f].functions) \cap Range(FileTab[o].functions) # {}}

\* one entry per (class, other file, other class) with class.endswith(other class)
class_inheritance(f, fs) ==
  Flatten([c \in 1..Len(FileTab[f].classes) |->
    Flatten([i \in 1..Len(fs) |->
      IF fs[i] = f THEN << >>
      ELSE [k \in 1..Count(FileTab[fs[i]].classes, FileTab[f].classes[c]) |-> fs[i]]])])

Rels(type, targets) == [i \in 1..Len(targets) |-> [type |-> type, target |-> targets[i]]]

\* the lists _generate_relationship_edges can build for f: the import and call
\* targets are enumerated from hash sets, in any order
RelListsOf(f, fs) ==
  {Rels("imports", io) \o Rels("calls", co) \o Rels("inherits", class_inheritance(f, fs)) :
     io \in Orders(import_graph(f, fs)), co \in Orders(function_calls(f, fs))}

\* the relationship tables map_relationships can return, aligned with fs
RelChoices(fs) == Product([i \in 1..Len(fs) |-> RelListsOf(fs[i], fs)])

\* ------------------------------------------------------------------------
\* EnhancedGraphBuilder (enhanced_graph_builder.py)
\* ------------------------------------------------------------------------
BusinessGroups == <<"Core Runtime", "Models", "Components", "Controls", "Actions", "Data",
                    "Integrations", "Other">>

\* the bucket of a core backend file
BucketOf(f) ==
  With(RelOf(f), LAMBDA rel :
    IF SrcIndex(f) = 0 THEN "Other"
    ELSE IF Len(rel) >= 2 /\ rel[1] = "vizro" /\ rel[2] = "_vizro" THEN "Core Runtime"
    ELSE IF RelHas2(rel, "models", "_components") THEN "Components"
    ELSE IF RelHas2(rel, "models", "_controls") THEN "Controls"
    ELSE IF RelHas(rel, "models") THEN "Models"
    ELSE IF RelHas(rel, "actions") THEN "Actions"
    ELSE IF RelHas(rel, "managers") THEN "Data"
    ELSE IF RelHas(rel, "integrations") THEN "Integrations"
    ELSE "Other")

IsCoreBackend(f) == ~IsNonCore(f) /\ categorize_file(f) = "backend"

_group_files_by_semantics(fs, g) ==
  SelectSeq(fs, LAMBDA f : IsCoreBackend(f) /\ BucketOf(f) = g)

_create_enhanced_hld_nodes(fs) ==
  LET groups == SelectSeq(BusinessGroups, LAMBDA g : _group_files_by_semantics(fs, g) # << >>)
  IN [i \in 1..Len(groups) |->
        GraphNode(<<"module", groups[i]>>, <<groups[i]>>, "Module", "BUSINESS",
                  _group_files_by_semantics(fs, groups[i]), << >>, << >>)]

Dunders == {"__init__", "__str__", "__repr__", "__eq__", "__hash__", "__getitem__", "__setitem__",
            "__delitem__", "__len__", "__contains__", "__iter__", "__next__", "__enter__",
            "__exit__", "__call__", "__getattr__", "__setattr__", "__delattr__",
            "__getattribute__", "__new__", "__del__", "__slots__"}
LowPrefixes == {"get", "set", "is", "has", "add", "remove", "clear", "update", "reset", "init",
                "cleanup", "validate"}

\* a name is a sequence of '_'-separated lower-case words
_should_skip_low_level_component(name) ==
  \E i \in 1..Len(name) : name[i] \in Dunders \/ (name[i] \in LowPrefixes /\ i < Len(name))

_get_class_functions(c, f) == FileTab[f].functions

_is_function_in_class(fn, f) == \E c \in Range(FileTab[f].classes) : c \in Range(fn)

PurposeGroups == <<"Data Processing", "Validation", "Utility", "Business Logic", "Configuration",
                   "Other">>

PurposeOf(fn) ==
  LET has(ws) == Range(fn) \cap ws # {} IN
  IF has({"process", "transform", "convert", "parse", "format"}) THEN "Data Processing"
  ELSE IF has({"validate", "check", "verify", "test", "assert"}) THEN "Validation"
  ELSE IF has({"util", "helper", "format", "clean", "normalize"}) THEN "Utility"
  ELSE IF has({"calculate", "compute", "analyze", "generate", "create"}) THEN "Business Logic"
  ELSE IF has({"config", "setup", "init", "load", "save"}) THEN "Configuration"
  ELSE "Other"

\* the nodes one file contributes, in the order they are stored
\* the class nodes of f: one per class that keeps a method
ClassNodes(f, stem) ==
  LET cls == SelectSeq(FileTab[f].classes, LAMBDA c : ~_should_skip_low_level_component(<<c>>))
      filtered(c) == SelectSeq(_get_class_functions(c, f),
                               LAMBDA fn : ~_should_skip_low_level_component(fn))
  IN With(SelectSeq(cls, LAMBDA c : filtered(c) # << >>), LAMBDA withFns :
       [i \in 1..Len(withFns) |->
          GraphNode(<<"class", withFns[i], stem>>, <<withFns[i], "Class">>, "Class",
                    "IMPLEMENTATION", <<f>>, filtered(withFns[i]), <<withFns[i]>>)])

\* the function-group nodes of f, standalone being its functions outside classes
GroupNodes(f, stem, standalone) ==
  LET grp(g) == SelectSeq(standalone, LAMBDA fn : PurposeOf(fn) = g)
  IN With(SelectSeq(PurposeGroups, LAMBDA g : grp(g) # << >>), LAMBDA groups :
       [i \in 1..Len(groups) |->
          GraphNode(<<"function_group", groups[i], stem>>, <<groups[i], "Functions">>,
                    "Function_Group", "IMPLEMENTATION", <<f>>, grp(groups[i]), << >>)])

LldNodesOfFile(f) ==
  ClassNodes(f, FileTab[f].stem)
  \o GroupNodes(f, FileTab[f].stem,
                SelectSeq(FileTab[f].functions,
                  LAMBDA fn : ~_should_skip_low_level_component(fn) /\ ~_is_function_in_class(fn, f)))

_create_enhanced_lld_nodes(fs) ==
  DictPutAll(<< >>, Flatten([i \in 1..Len(fs) |-> LldNodesOfFile(fs[i])]))

\* --- _create_system_nodes_and_edges ---------------------------------------
CoreFiles(fs) == SelectSeq(fs, LAMBDA f : ~IsNonCore(f))

ClusterKey(f) ==
  IF SrcIndex(f) # 0
  THEN With(RelOf(f), LAMBDA rel : IF Len(rel) >= 2 THEN rel[2] ELSE rel[1])
  ELSE ParentName(f)

\* list(pkg_groups.values())
Clusters(fs) ==
  With(CoreFiles(fs), LAMBDA core :
  With(Dedup([i \in 1..Len(core) |-> ClusterKey(core[i])]), LAMBDA keys :
    [k \in 1..Len(keys) |-> SelectSeq(core, LAMBDA f : ClusterKey(f) = keys[k])]))

\* max(set(dir_names), key=dir_names.count): a most frequent directory name;
\* among equally frequent ones the set's iteration order decides
CommonDirs(cfiles) ==
  With([i \in 1..Len(cfiles) |-> ParentName(cfiles[i])], LAMBDA names :
    {d \in Range(names) : \A e \in Range(names) : Count(names, e) <= Count(names, d)})

\* matches_import, any import of the file
ImportTargets(f, fs) ==
  {o \in Range(CoreFiles(fs)) :
     o # f /\ \E k \in 1..Len(imports_entry(f, fs)) :
                \E part \in Range(imports_entry(f, fs)[k]) : SubstringOf(FileTab[o].stem, part)}

Overlap(cfiles, bn) == Cardinality(Range(cfiles) \cap Range(bn.files))

\* index in hld of the first BUSINESS node with the largest positive overlap, 0 for None
find_business_parent(cfiles, hld) ==
  IF \E i \in 1..Len(hld) : Overlap(cfiles, hld[i]) > 0
  THEN CHOOSE i \in 1..Len(hld) :
         /\ Overlap(cfiles, hld[i]) > 0
         /\ \A j \in 1..Len(hld) : Overlap(cfiles, hld[j]) <= Overlap(cfiles, hld[i])
         /\ \A j \in 1..(i-1) : Overlap(cfiles, hld[j]) < Overlap(cfiles, hld[i])
  ELSE 0

SystemId(cd, idx) == <<"system", cd, ToString(idx)>>

\* impl_by_file.get(f, [])
ImplByFile(f, lld) == SelectSeq(lld, LAMBDA n : f \in Range(n.files))

\* the SYSTEM node of the idx-th cluster, of files cfiles and common directory cd
SystemNode(idx, cfiles, cd, hld, lld) ==
  With(find_business_parent(cfiles, hld), LAMBDA bp :
  With(Flatten([k \in 1..Len(cfiles) |-> ImplByFile(cfiles[k], lld)]), LAMBDA impls :
    [GraphNode(SystemId(cd, idx), <<cd>>, "Service", "SYSTEM", cfiles, << >>, << >>)
       EXCEPT !.parent = IF bp = 0 THEN NoneId ELSE hld[bp].id,
              !.children = [k \in 1..Len(impls) |-> impls[k].id]]))

\* the SYSTEM nodes, cds[i] being the common directory chosen for cluster i
SystemNodes(fs, hld, lld, cds) ==
  With(Clusters(fs), LAMBDA cl :
    [i \in 1..Len(cl) |-> SystemNode(i, cl[i], cds[i], hld, lld)])

\* parent_business.children.append(node_id)
HldAfterSystem(hld, sys) ==
  [b \in 1..Len(hld) |->
     [hld[b] EXCEPT !.children =
        @ \o [k \in 1..Len(SelectSeq(sys, LAMBDA s : s.parent = hld[b].id)) |->
                SelectSeq(sys, LAMBDA s : s.parent = hld[b].id)[k].id]]]

\* impl.parent = node_id
LldAfterSystem(lld, sys) ==
  [n \in 1..Len(lld) |->
     LET owners == SelectSeq(sys, LAMBDA s : lld[n].id \in Range(s.children))
     IN IF owners = << >> THEN lld[n]
        ELSE [lld[n] EXCEPT !.parent = owners[Len(owners)].id]]

SystemContains(sys) ==
  Flatten([i \in 1..Len(sys) |->
     (IF sys[i].parent = NoneId THEN << >>
      ELSE <<GraphEdge(sys[i].parent, sys[i].id, "contains")>>)
     \o [k \in 1..Len(sys[i].children) |-> GraphEdge(sys[i].id, sys[i].children[k], "contains")]])

\* file_to_cluster.get(f): the last SYSTEM node listing f, NoneId when none
FileToCluster(f, sys) ==
  LET owners == SelectSeq(sys, LAMBDA s : f \in Range(s.files))
  IN IF owners = << >> THEN NoneId ELSE owners[Len(owners)].id

\* SystemDepends without the test src_cluster == tgt_cluster
SystemDepends_SameCluster(fs, sys, imps) ==
  LET pairs == Flatten([i \in 1..Len(fs) |->
                 [k \in 1..Len(imps[i]) |->
                    <<FileToCluster(fs[i], sys), FileToCluster(imps[i][k], sys)>>]])
      ok == SelectSeq(pairs, LAMBDA p : p[1] # NoneId /\ p[2] # NoneId)
      seen == Dedup(ok)
  IN [k \in 1..Len(seen) |-> GraphEdge(seen[k][1], seen[k][2], "depends_on")]

\* system-level depends_on edges; imps[i] is list(targets) of fs[i]
SystemDepends(fs, sys, imps) ==
  LET pairs == Flatten([i \in 1..Len(fs) |->
                 [k \in 1..Len(imps[i]) |->
                    <<FileToCluster(fs[i], sys), FileToCluster(imps[i][k], sys)>>]])
      ok == SelectSeq(pairs, LAMBDA p : p[1] # NoneId /\ p[2] # NoneId /\ p[1] # p[2])
      seen == Dedup(ok)
  IN [k \in 1..Len(seen) |-> GraphEdge(seen[k][1], seen[k][2], "depends_on")]

\* --- _create_enhanced_graph_edges -----------------------------------------
\* index of the first BUSINESS node listing the file, 0 for None
_find_parent_hld_node(f, hld) ==
  IF \E i \in 1..Len(hld) : f \in Range(hld[i].files)
  THEN CHOOSE i \in 1..Len(hld) :
         f \in Range(hld[i].files) /\ \A j \in 1..(i-1) : f \notin Range(hld[j].files)
  ELSE 0

\* (business index, lld index) for every containment found, in order
BusinessLinks(hld, lld) ==
  Flatten([n \in 1..Len(lld) |->
     Flatten([k \in 1..Len(lld[n].files) |->
        IF _find_parent_hld_node(lld[n].files[k], hld) = 0 THEN << >>
        ELSE << <<_find_parent_hld_node(lld[n].files[k], hld), n>> >>])])

BusinessContains(hld, lld) ==
  LET links == BusinessLinks(hld, lld)
  IN [k \in 1..Len(links) |-> GraphEdge(hld[links[k][1]].id, lld[links[k][2]].id, "contains")]

\* lld_node.parent = parent_hld.id
LldAfterEdges(hld, lld) ==
  LET links == BusinessLinks(hld, lld) IN
  [n \in 1..Len(lld) |->
     LET ls == SelectSeq(links, LAMBDA l : l[2] = n)
     IN IF ls = << >> THEN lld[n] ELSE [lld[n] EXCEPT !.parent = hld[ls[Len(ls)][1]].id]]

\* parent_hld.children.append(lld_node.id)
HldAfterEdges(hld, lld) ==
  LET links == BusinessLinks(hld, lld) IN
  [b \in 1..Len(hld) |->
     LET ls == SelectSeq(links, LAMBDA l : l[1] = b)
     IN [hld[b] EXCEPT !.children = @ \o [k \in 1..Len(ls) |-> lld[ls[k][2]].id]]]

_create_relationship_edges(fs, rr, lld) ==
  Flatten([i \in 1..Len(fs) |->
    Flatten([r \in 1..Len(rr[i]) |->
      LET src == ImplByFile(fs[i], lld)
          tgt == ImplByFile(rr[i][r].target, lld)
      IN Flatten([a \in 1..Len(src) |->
           Flatten([b \in 1..Len(tgt) |->
              IF src[a].id # tgt[b].id
              THEN <<GraphEdge(src[a].id, tgt[b].id, rr[i][r].type)>>
              ELSE << >>])])])])

\* ------------------------------------------------------------------------
\* _build_viz_from_frontend (flask_app.py)
\* ------------------------------------------------------------------------
TOP_N_DEPENDS == 5
MIN_DEPENDS_WEIGHT == 3

\* the words ids are made of, in the order of Python's string comparison
TokenOrder == <<"1", "2", "3", "4", "5", "6", "7", "8", "9", "_components", "actions", "api",
                "config", "managers", "models", "pkg", "proj", "system">>
TokRank(t) == IndexOf(TokenOrder, t)

RECURSIVE IdLess(_, _)
\* a < b on ids, as strings
IdLess(a, b) ==
  IF b = << >> THEN FALSE
  ELSE IF a = << >> THEN TRUE
  ELSE IF Head(a) = Head(b) THEN IdLess(Tail(a), Tail(b))
  ELSE TokRank(Head(a)) < TokRank(Head(b))

VizEdge(from, to, type, w) == [from_node |-> from, to_node |-> to, type |-> type, weight |-> w]

OfType(es, t) == SelectSeq(es, LAMBDA e : e.type = t)

\* parent_of.get(x): the dict comprehension keeps the last contains edge into x
parent_of(x, es) ==
  LET c == SelectSeq(es, LAMBDA e : e.type = "contains" /\ e.to_node = x)
  IN IF c = << >> THEN NoneId ELSE c[Len(c)].from_node

LevelOf(id, nodes) == IF DictHas(nodes, id) THEN DictGet(nodes, id).level ELSE "None"

RECURSIVE system_ancestor(_, _, _)
system_ancestor(nid, nodes, es) ==
  LET p == parent_of(nid, es) IN
  IF p = NoneId THEN NoneId
  ELSE IF LevelOf(p, nodes) = "SYSTEM" THEN p
  ELSE system_ancestor(p, nodes, es)

\* CrossPairs without the test sa != sb
CrossPairs_SameSystem(nodes, es) ==
  With(OfType(es, "calls"), LAMBDA calls :
  With(OfType(es, "contains"), LAMBDA contains :
    SelectSeq([k \in 1..Len(calls) |->
                 <<system_ancestor(calls[k].from_node, nodes, contains),
                   system_ancestor(calls[k].to_node, nodes, contains)>>],
              LAMBDA p : p[1] # NoneId /\ p[2] # NoneId)))

\* the (sa, sb) pair of every calls edge that crosses two systems, in edge order
CrossPairs(nodes, es) ==
  With(OfType(es, "calls"), LAMBDA calls :
  With(OfType(es, "contains"), LAMBDA contains :
    SelectSeq([k \in 1..Len(calls) |->
                 <<system_ancestor(calls[k].from_node, nodes, contains),
                   system_ancestor(calls[k].to_node, nodes, contains)>>],
              LAMBDA p : p[1] # NoneId /\ p[2] # NoneId /\ p[1] # p[2])))

\* weights, as the list of its items: <<sa, sb, w>>
Weights(nodes, es) ==
  With(CrossPairs(nodes, es), LAMBDA pairs :
  With(Dedup(pairs), LAMBDA keys :
    [k \in 1..Len(keys) |-> <<keys[k][1], keys[k][2], Count(pairs, keys[k])>>]))

\* ItemBefore with the key -w alone
ItemBefore_WeightOnly(x, y) == x[2] > y[2]

\* x sorts before y under key (-w, target id); items are <<sb, w>>
ItemBefore(x, y) == x[2] > y[2] \/ (x[2] = y[2] /\ IdLess(x[1], y[1]))

RECURSIVE SortItems(_)
\* lst.sort(key=lambda x: (-x[1], x[0])), a stable sort
SortItems(lst) ==
  IF lst = << >> THEN << >>
  ELSE LET m == CHOOSE i \in 1..Len(lst) :
                  /\ \A j \in 1..Len(lst) : ~ItemBefore(lst[j], lst[i])
                  /\ \A j \in 1..(i-1) : ItemBefore(lst[i], lst[j])
       IN <<lst[m]>> \o SortItems(SubSeq(lst, 1, m - 1) \o SubSeq(lst, m + 1, Len(lst)))

FirstN(s, n) == SubSeq(s, 1, IF Len(s) < n THEN Len(s) ELSE n)

\* the depends_on edges of one source: lst[:TOP_N_DEPENDS], minus the light ones
KeptOf(sa, lst, minw) ==
  With(SelectSeq(FirstN(SortItems(lst), TOP_N_DEPENDS), LAMBDA x : x[2] >= minw), LAMBDA kept :
    [k \in 1..Len(kept) |-> VizEdge(sa, kept[k][1], "depends_on", kept[k][2])])

\* dep_edges of a weights table ws (items <<sa, sb, w>>)
RollUp(ws, minw) ==
  LET lst(sa) == With(SelectSeq(ws, LAMBDA x : x[1] = sa), LAMBDA mine :
                   [k \in 1..Len(mine) |-> <<mine[k][2], mine[k][3]>>])
  IN With(Dedup([k \in 1..Len(ws) |-> ws[k][1]]), LAMBDA srcs :
       Flatten([i \in 1..Len(srcs) |-> KeptOf(srcs[i], lst(srcs[i]), minw)]))

\* --- implementation clustering ----------------------------------------------
Levelled(nodes, lvl) == SelectSeq(nodes, LAMBDA n : n.level = lvl)

\* impl_groups: <<sp, members>> per system ancestor (NoneId included), in dict order
impl_groups(nodes, es) ==
  With(Levelled(nodes, "IMPLEMENTATION"), LAMBDA impl :
  With(OfType(es, "contains"), LAMBDA contains :
  With([k \in 1..Len(impl) |-> system_ancestor(impl[k].id, nodes, contains)], LAMBDA sp :
  With(Dedup(sp), LAMBDA sps :
    [i \in 1..Len(sps) |->
       <<sps[i], [k \in 1..Len(SelectSeq(sp, LAMBDA x : x = sps[i])) |->
                    impl[CHOOSE j \in 1..Len(impl) :
                           sp[j] = sps[i] /\ Cardinality({h \in 1..j : sp[h] = sps[i]}) = k]]>>]))))

\* parts[-2] of the node's first file, 'misc' without one
BucketKey(n) == IF n.files = << >> THEN "misc" ELSE ParentName(n.files[1])

\* slug(k): non-alphanumerics become '_', which strip('_') removes at the ends
slug(k) == IF k = "_components" THEN "components" ELSE k

ClusterId(sid, k) == <<"cluster">> \o (IF sid = NoneId THEN <<"None">> ELSE sid) \o <<slug(k)>>

\* the clusters created: [id, key, members], buckets of at least 2 members
\* the clusters of one group: sid its system, ms its members
ClustersOfGroup(sid, ms) ==
  LET members(key) == SelectSeq(ms, LAMBDA n : BucketKey(n) = key)
  IN With(SelectSeq(Dedup([k \in 1..Len(ms) |-> BucketKey(ms[k])]),
                    LAMBDA key : Len(members(key)) >= 2), LAMBDA big :
       [b \in 1..Len(big) |->
          [id |-> ClusterId(sid, big[b]), key |-> big[b],
           members |-> With(members(big[b]), LAMBDA m : [k \in 1..Len(m) |-> m[k].id])]])

ClusterList(nodes, es) ==
  With(impl_groups(nodes, es), LAMBDA gs :
    Flatten([g \in 1..Len(gs) |-> ClustersOfGroup(gs[g][1], gs[g][2])]))

ClusterNode(c) == GraphNode(c.id, <<c.key, "Cluster">>, "Cluster", "IMPLEMENTATION", << >>, << >>, << >>)

\* impl_to_cluster.get(mid): the last cluster that took the member
impl_to_cluster(mid, cl) ==
  LET owners == SelectSeq(cl, LAMBDA c : mid \in Range(c.members))
  IN IF owners = << >> THEN NoneId ELSE owners[Len(owners)].id

\* impl_to_cluster.items(), in insertion order
ClusterMembers(cl) == Dedup(Flatten([c \in 1..Len(cl) |-> cl[c].members]))

ToViz(es) == [k \in 1..Len(es) |-> VizEdge(es[k].from_node, es[k].to_node, es[k].type, 0)]

new_contains(es, cl) ==
  ToViz(OfType(es, "contains"))
  \o With(ClusterMembers(cl), LAMBDA ms :
        [k \in 1..Len(ms) |-> VizEdge(impl_to_cluster(ms[k], cl), ms[k], "contains", 0)])

cluster_dep_edges(es, cl) ==
  With(OfType(es, "calls"), LAMBDA calls :
  With(SelectSeq([k \in 1..Len(calls) |->
                    <<impl_to_cluster(calls[k].from_node, cl), impl_to_cluster(calls[k].to_node, cl)>>],
                 LAMBDA q : q[1] # NoneId /\ q[2] # NoneId /\ q[1] # q[2]), LAMBDA ok :
  With(Dedup(ok), LAMBDA keys :
    [k \in 1..Len(keys) |-> VizEdge(keys[k][1], keys[k][2], "depends_on", Count(ok, keys[k]))])))

\* --- pruning of BUSINESS -> IMPLEMENTATION contains -------------------------
HasEdge(es, f, t, type) == \E e \in Range(es) : e.from_node = f /\ e.to_node = t /\ e.type = type

prune_pairs(nodes, merged) ==
  {<<e.from_node, e.to_node>> : e \in
     {e \in Range(merged) :
        /\ e.type = "contains"
        /\ LevelOf(e.from_node, nodes) = "BUSINESS"
        /\ LevelOf(e.to_node, nodes) = "IMPLEMENTATION"
        /\ \E s \in Range(nodes) :
             /\ s.level = "SYSTEM"
             /\ HasEdge(merged, e.from_node, s.id, "contains")
             /\ HasEdge(merged, s.id, e.to_node, "contains")}}

Pruned(nodes, merged) ==
  With(prune_pairs(nodes, merged), LAMBDA pp :
    SelectSeq(merged, LAMBDA e : ~(e.type = "contains" /\ <<e.from_node, e.to_node>> \in pp)))

\* --- external / user stubs ---------------------------------------------------
ActorUser == <<"actor", "user">>
ExternalLlm == <<"external", "llm", "service">>
ExternalAuth == <<"external", "auth", "provider">>

\* 'api' in n.get('name','').lower()
NameHasApi(n) == "api" \in Range(n.name)

\* id of the first SYSTEM node whose name has 'api', NoneId for None
sys_api(nodes) ==
  LET c == SelectSeq(nodes, LAMBDA n : n.level = "SYSTEM" /\ NameHasApi(n))
  IN IF c = << >> THEN NoneId ELSE c[1].id

\* the words found in the .py files under codebase_dir
CodeText(d) == UNION {FileTab[f].text : f \in {g \in d : FileTab[g].suffix = ".py"}}

StubNodes(nodes, d) ==
  With(sys_api(nodes), LAMBDA api :
  With(CodeText(d), LAMBDA text :
  (IF api # NoneId /\ ~DictHas(nodes, ActorUser)
   THEN <<GraphNode(ActorUser, <<"User">>, "Actor", "BUSINESS", << >>, << >>, << >>)>> ELSE << >>)
  \o (IF api # NoneId /\ "openai" \in text /\ ~DictHas(nodes, ExternalLlm)
      THEN <<GraphNode(ExternalLlm, <<"LLM", "Service">>, "External", "SYSTEM", << >>, << >>, << >>)>>
      ELSE << >>)
  \o (IF api # NoneId /\ text \cap {"jwt", "oidc"} # {} /\ ~DictHas(nodes, ExternalAuth)
      THEN <<GraphNode(ExternalAuth, <<"Auth", "Provider">>, "External", "SYSTEM", << >>, << >>, << >>)>>
      ELSE << >>)))

StubEdges(nodes, d) ==
  With(sys_api(nodes), LAMBDA api :
  With(CodeText(d), LAMBDA text :
  (IF api # NoneId THEN <<VizEdge(ActorUser, api, "depends_on", 1)>> ELSE << >>)
  \o (IF api # NoneId /\ "openai" \in text
      THEN <<VizEdge(api, ExternalLlm, "depends_on", 1)>> ELSE << >>)
  \o (IF api # NoneId /\ text \cap {"jwt", "oidc"} # {}
      THEN <<VizEdge(api, ExternalAuth, "depends_on", 1)>> ELSE << >>)))

\* --- the function ------------------------------------------------------------
\* n['parent'] = cid for the clustered implementation nodes
Reparented(nodes, cl) ==
  [i \in 1..Len(nodes) |->
     IF nodes[i].level = "IMPLEMENTATION" /\ impl_to_cluster(nodes[i].id, cl) # NoneId
     THEN [nodes[i] EXCEPT !.parent = impl_to_cluster(nodes[i].id, cl)]
     ELSE nodes[i]]

\* the clusters made: none unless do_cluster (len(system) > 5)
VizClusters(nodes, es) ==
  IF Len(Levelled(nodes, "SYSTEM")) > 5 THEN ClusterList(nodes, es) ELSE << >>

\* nodes once the cluster nodes cl are in
WithClusterNodes(nodes, cl) ==
  Reparented(nodes, cl) \o [k \in 1..Len(cl) |-> ClusterNode(cl[k])]

VizNodes(nodes, es, d) ==
  With(WithClusterNodes(nodes, VizClusters(nodes, es)), LAMBDA ns : ns \o StubNodes(ns, d))

MergedEdges(nodes, es) ==
  ToViz(OfType(es, "contains")) \o RollUp(Weights(nodes, es), MIN_DEPENDS_WEIGHT)
  \o ToViz(OfType(es, "calls"))

VizEdges(nodes, es, d) ==
  With(VizClusters(nodes, es), LAMBDA cl :
  With(Pruned(nodes, MergedEdges(nodes, es)), LAMBDA merged :
    (IF cl # << >>
     THEN new_contains(es, cl)
          \o SelectSeq(merged, LAMBDA e : e.type # "contains")
          \o cluster_dep_edges(es, cl)
     ELSE merged)
    \o StubEdges(WithClusterNodes(nodes, cl), d)))

\* --- layout ------------------------------------------------------------------
\* the y of the 12 rows
rowvals == <<140, 420, 560, 700, 840, 980, 1180, 1320, 1460, 1600, 1740, 1880>>

\* the words names are made of, in the order of Python's string comparison
\* (a SYSTEM name is its directory name in title case, which keeps the order)
NameOrder == <<"Actions", "Business Logic", "Class", "Cluster", "Components", "Configuration",
               "Controls", "Core Runtime", "Data", "Data Processing", "Functions", "Integrations",
               "Models", "Other", "Utility", "Validation", "_components", "actions", "alpha",
               "api", "beta", "config", "docs", "gamma", "llm", "managers", "models", "pkg",
               "proj", "src", "tests">>
NameRank(t) == IndexOf(NameOrder, t)

RECURSIVE NameLess(_, _)
\* a < b on names, as strings
NameLess(a, b) ==
  IF b = << >> THEN FALSE
  ELSE IF a = << >> THEN TRUE
  ELSE IF Head(a) = Head(b) THEN NameLess(Tail(a), Tail(b))
  ELSE NameRank(Head(a)) < NameRank(Head(b))

\* degree_map(merged_edges)[id]
degree_map(id, merged) ==
  Len(SelectSeq(merged, LAMBDA e : e.from_node = id))
  + Len(SelectSeq(merged, LAMBDA e : e.to_node = id))

\* the nodes ns with their sort key (-deg, name)
ByDegree(ns, merged) ==
  [k \in 1..Len(ns) |-> [id |-> ns[k].id, name |-> ns[k].name, deg |-> degree_map(ns[k].id, merged)]]

\* the nodes ns with the sort key name
ByName(ns) == [k \in 1..Len(ns) |-> [id |-> ns[k].id, name |-> ns[k].name, deg |-> 0]]

\* x sorts before y under key (-deg, name)
KeyBefore(x, y) == x.deg > y.deg \/ (x.deg = y.deg /\ NameLess(x.name, y.name))

RECURSIVE SortKeyed(_)
\* list.sort(key=...), a stable sort: the first of the least items, then the rest
SortKeyed(lst) ==
  IF lst = << >> THEN << >>
  ELSE With(CHOOSE i \in 1..Len(lst) :
              /\ \A j \in 1..Len(lst) : ~KeyBefore(lst[j], lst[i])
              /\ \A j \in 1..(i - 1) : KeyBefore(lst[i], lst[j]),
            LAMBDA m : <<lst[m]>> \o SortKeyed(SubSeq(lst, 1, m - 1) \o SubSeq(lst, m + 1, Len(lst))))

\* the items of ns whose key in ks is key, in order
Pick(ns, ks, key) ==
  With(SelectSeq([k \in 1..Len(ns) |-> k], LAMBDA k : ks[k] = key), LAMBDA idx :
    [i \in 1..Len(idx) |-> ns[idx[i]]])

\* d.setdefault(key, []).append(n) for each n of ns, ks[k] being the key of
\* ns[k]: <<key, members>> per key, in dict order
GroupBy(ns, ks) ==
  With(Dedup(ks), LAMBDA keys : [g \in 1..Len(keys) |-> <<keys[g], Pick(ns, ks, keys[g])>>])

\* n['position'] = {'x': x, 'y': y}
Place(id, x, y) == [id |-> id, x |-> x, y |-> y]

\* the place given last to id among places
LastPlace(places, id) ==
  With(SelectSeq(places, LAMBDA p : p.id = id), LAMBDA c : c[Len(c)])

\* bx.get(id, 200), sx.get(id, 200)
XOf(places, id) ==
  IF \E p \in Range(places) : p.id = id THEN LastPlace(places, id).x ELSE 200

\* a sorted group side by side around cx, step apart, over nrows rows from row first
PlaceRow(sorted, cx, step, first, nrows) ==
  [j \in 1..Len(sorted) |->
     Place(sorted[j].id, (cx + ((j - 1) * step)) - (((Len(sorted) - 1) * step) \div 2),
           rowvals[first + ((j - 1) % nrows)])]

\* the BUSINESS nodes, by name, 350 apart on row 1
business_places(nodes) ==
  With(SortKeyed(ByName(Levelled(nodes, "BUSINESS"))), LAMBDA b :
    [i \in 1..Len(b) |-> Place(b[i].id, 200 + ((i - 1) * 350), rowvals[1])])

\* sys_by_parent: the SYSTEM nodes of one parent around the x of that parent
system_places(nodes, es, merged, bx) ==
  With(Levelled(nodes, "SYSTEM"), LAMBDA system :
  With(GroupBy(system, [k \in 1..Len(system) |-> parent_of(system[k].id, es)]), LAMBDA gs :
    Flatten([g \in 1..Len(gs) |->
      PlaceRow(SortKeyed(ByDegree(gs[g][2], merged)), XOf(bx, gs[g][1]), 180, 2, 5)])))

\* impl_groups: the IMPLEMENTATION nodes of one system ancestor below it
impl_places(nodes, es, merged, sx) ==
  With(impl_groups(nodes, es), LAMBDA gs :
    Flatten([g \in 1..Len(gs) |->
      PlaceRow(SortKeyed(ByDegree(gs[g][2], merged)), XOf(sx, gs[g][1]), 140, 7, 6)]))

\* members_by_cluster, in dict order: [id, members]
members_by_cluster(nodes, cl) ==
  With(SelectSeq(Levelled(nodes, "IMPLEMENTATION"),
                 LAMBDA n : impl_to_cluster(n.id, cl) # NoneId), LAMBDA taken :
  With(GroupBy(taken, [k \in 1..Len(taken) |-> impl_to_cluster(taken[k].id, cl)]), LAMBDA gs :
    [g \in 1..Len(gs) |-> [id |-> gs[g][1], members |-> gs[g][2]]]))

\* cid.split('_')[1]: 'system' for the cluster of a system, 'None' without one
SplitSid(cid) == cid[2]

\* the clusters with the sort key -len(members)
BySize(cs) ==
  [k \in 1..Len(cs) |->
     [id |-> cs[k].id, name |-> << >>, deg |-> Len(cs[k].members), members |-> cs[k].members]]

\* ordered: the clusters grouped by SplitSid, each group by size
ordered(mbc) ==
  With(GroupBy(mbc, [k \in 1..Len(mbc) |-> SplitSid(mbc[k].id)]), LAMBDA gs :
    Flatten([g \in 1..Len(gs) |-> SortKeyed(BySize(gs[g][2]))]))

\* round(count ** 0.5)
RoundSqrt(n) ==
  CHOOSE r \in 0..n : (2 * r - 1) * (2 * r - 1) <= 4 * n /\ 4 * n < (2 * r + 1) * (2 * r + 1)

\* cols of a cluster of count members
Cols(count) == IF RoundSqrt(count) > 2 THEN RoundSqrt(count) ELSE 2

\* width of a cluster of count members
Width(count) == ((Cols(count) - 1) * 120) + (2 * 80)

RECURSIVE cursor_x(_, _)
\* cursor_x when the i-th cluster of ord is reached
cursor_x(ord, i) ==
  IF i = 1 THEN 200 ELSE cursor_x(ord, i - 1) + Width(Len(ord[i - 1].members)) + 80

center_x(ord, i) == cursor_x(ord, i) + (Width(Len(ord[i].members)) \div 2)

\* layers[layer_index % len(layers)], layers being rows 9, 10 and 11
line_y(i) == rowvals[9 + ((i - 1) % 3)]

\* clusters_map[cid]['position'] of the clusters with members
cluster_places(ord) ==
  [i \in 1..Len(ord) |-> Place(ord[i].id, center_x(ord, i), line_y(i))]

\* the members of a cluster, by name, on a grid centred in the cluster
GridOf(members, cx, ly) ==
  With(SortKeyed(ByName(members)), LAMBDA ch :
  With(Cols(Len(ch)), LAMBDA cols :
  With((Len(ch) + cols - 1) \div cols, LAMBDA rows :
    [k \in 1..Len(ch) |->
       Place(ch[k].id, (cx - (((cols - 1) * 120) \div 2)) + (((k - 1) % cols) * 120),
                       (ly - (((rows - 1) * 90) \div 2)) + (((k - 1) \div cols) * 90))])))

grid_places(ord) ==
  Flatten([i \in 1..Len(ord) |-> GridOf(ord[i].members, center_x(ord, i), line_y(i))])

RECURSIVE SumX(_)
SumX(places) == IF places = << >> THEN 0 ELSE Head(places).x + SumX(Tail(places))

\* sys_center_x: the SYSTEM nodes whose id is a key of sys_to_minmax, moved to
\* the midpoint of the cluster centres under that key
sys_center_x(nodes, base, cpl) ==
  With(SelectSeq(Levelled(nodes, "SYSTEM"),
                 LAMBDA sn : \E p \in Range(cpl) : <<SplitSid(p.id)>> = sn.id), LAMBDA hit :
    [k \in 1..Len(hit) |->
       With({p.x : p \in {q \in Range(cpl) : <<SplitSid(q.id)>> = hit[k].id}}, LAMBDA xs :
         Place(hit[k].id,
               ((CHOOSE lo \in xs : \A x \in xs : lo <= x)
                + (CHOOSE hi \in xs : \A x \in xs : x <= hi)) \div 2,
               LastPlace(base, hit[k].id).y))])

\* sys_parent.get(sid): the BUSINESS node of the last contains edge into a SYSTEM node
sys_parent(sid, nodes, es) ==
  With(SelectSeq(es, LAMBDA e : /\ e.type = "contains" /\ e.to_node = sid
                                /\ LevelOf(e.from_node, nodes) = "BUSINESS"
                                /\ LevelOf(e.to_node, nodes) = "SYSTEM"), LAMBDA c :
    IF c = << >> THEN NoneId ELSE c[Len(c)].from_node)

\* the BUSINESS nodes with re-anchored systems below, moved to the mean of their x
\* (sum(xs) / len(xs); whole on every list the builder's ids allow, which is none)
business_reanchored(nodes, es, base, scx) ==
  With(SelectSeq(Levelled(nodes, "BUSINESS"),
                 LAMBDA bn : \E p \in Range(scx) : sys_parent(p.id, nodes, es) = bn.id), LAMBDA hit :
    [k \in 1..Len(hit) |->
       With(SelectSeq(scx, LAMBDA p : sys_parent(p.id, nodes, es) = hit[k].id), LAMBDA xs :
         Place(hit[k].id, SumX(xs) \div Len(xs), LastPlace(base, hit[k].id).y))])

\* every n['position'] = ... of the nodes of the input, in the order of the assignments
Placed(nodes, es, cl) ==
  With(MergedEdges(nodes, es), LAMBDA merged :
  With(business_places(nodes), LAMBDA bx :
  With(system_places(nodes, es, merged, bx), LAMBDA sx :
  With(bx \o sx \o impl_places(nodes, es, merged, sx), LAMBDA base :
  With(ordered(members_by_cluster(nodes, cl)), LAMBDA ord :
  With(sys_center_x(nodes, base, cluster_places(ord)), LAMBDA scx :
    base \o grid_places(ord) \o scx \o business_reanchored(nodes, es, base, scx)))))))

\* the system a cluster id was made for: cluster_<sid>_<slug>
SidOfCluster(cid) == SubSeq(cid, 2, Len(cid) - 1)

\* the position of the k-th cluster node: clusters_map keeps the last node of
\* an id, which the grid layout centres; another one stays below its system
ClusterPlace(k, cl, nodes, es) ==
  With(cluster_places(ordered(members_by_cluster(nodes, cl))), LAMBDA cpl :
    IF (\A h \in (k + 1)..Len(cl) : cl[h].id # cl[k].id) /\ (\E p \in Range(cpl) : p.id = cl[k].id)
    THEN LastPlace(cpl, cl[k].id)
    ELSE Place(cl[k].id,
               XOf(system_places(nodes, es, MergedEdges(nodes, es), business_places(nodes)),
                   SidOfCluster(cl[k].id)),
               rowvals[9]))

\* the 'position' the stub nodes are created with
StubPlace(n) == Place(n.id, 0, IF n.id = ActorUser THEN 150 ELSE 390)

\* the position of every node of viz['nodes'], in that order
Positions(nodes, es, d) ==
  With(VizClusters(nodes, es), LAMBDA cl :
  With(Placed(nodes, es, cl), LAMBDA places :
  With(StubNodes(WithClusterNodes(nodes, cl), d), LAMBDA stubs :
    [i \in 1..Len(nodes) |-> LastPlace(places, nodes[i].id)]
    \o [k \in 1..Len(cl) |-> ClusterPlace(k, cl, nodes, es)]
    \o [k \in 1..Len(stubs) |-> StubPlace(stubs[k])])))

\* --- naming service ---------------------------------------------------------
\* what the service does: no credential, every call raises, every reply is
\* empty, every reply is a name, every second call raises
Services == {"absent", "fails", "blank", "names", "mixed"}

\* the name the service proposes
Suggestion == <<"api", "gateway">>

\* the k-th call returns a name
Answers(svc, k) == svc = "names" \/ (svc = "mixed" /\ k % 2 = 1)

\* making the brief of n raises: sorted() over the names of its neighbours meets
\* None, for a neighbour that by_id lacks, next to a name
brief_raises(n, nodes, vedges) ==
  With({e.to_node : e \in {e \in Range(vedges) : e.from_node = n.id}}
       \cup {e.from_node : e \in {e \in Range(vedges) : e.to_node = n.id}}, LAMBDA nb :
    (\E a \in nb : ~DictHas(nodes, a)) /\ (\E b \in nb : DictHas(nodes, b)))

\* the naming step on the nodes vnodes: its targets are the BUSINESS and SYSTEM
\* nodes in order, and a brief that raises ends it (every cluster node has a
\* description, so clusters_to_describe is empty)
Named(vnodes, nodes, vedges, svc) ==
  With(SelectSeq([i \in 1..Len(vnodes) |-> i],
                 LAMBDA i : vnodes[i].level \in {"BUSINESS", "SYSTEM"}), LAMBDA targets :
  With({k \in 1..Len(targets) : brief_raises(vnodes[targets[k]], nodes, vedges)}, LAMBDA bad :
  With({targets[k] : k \in {h \in 1..Len(targets) : Answers(svc, h) /\ \A b \in bad : h < b}},
       LAMBDA named :
    [i \in 1..Len(vnodes) |->
       IF i \in named THEN [vnodes[i] EXCEPT !.name = Suggestion] ELSE vnodes[i]])))

\* viz['nodes'] with the names asked for before the External/User stubs are made
NamedVizNodes_BeforeStubs(nodes, es, d, svc) ==
  VizNodes(Named(nodes, nodes, VizEdges(nodes, es, d), svc), es, d)

\* viz['nodes']: the clusters and the stubs, then the names
NamedVizNodes(nodes, es, d, svc) ==
  Named(VizNodes(nodes, es, d), nodes, VizEdges(nodes, es, d), svc)

\* metadata.layout: the rows of each level
bands == [BUSINESS |-> {1}, SYSTEM |-> {2, 3, 4}, IMPLEMENTATION |-> 5..12]

\* ------------------------------------------------------------------------
\* The pipeline
\* ------------------------------------------------------------------------
\* Path.rglob('*') below prefix: the entries of a directory in the order the
\* file system lists them, then its sub-directories one after the other, each
\* walked the same way
RECURSIVE rglob(_, _)
rglob(prefix, d) ==
  LET n == Len(prefix)
      under == {f \in d : Len(FileTab[f].segs) > n /\ SubSeq(FileTab[f].segs, 1, n) = prefix}
      here == {f \in under : Len(FileTab[f].segs) = n + 1}
      subdirs == {FileTab[f].segs[n + 1] : f \in under \ here}
  IN {h \o Flatten(sub) :
        h \in Orders(here),
        sub \in UNION {Product([i \in 1..Len(o) |-> rglob(Append(prefix, o[i]), d)]) :
                         o \in Orders(subdirs)}}

\* FileUtils.discover_files: no sort is applied to what rglob yields
discover_files(d) ==
  {SelectSeq(en, should_include_file) : en \in rglob(<< >>, d)}

\* the Python files that parse
Sources == {f \in Files : FileTab[f].suffix = ".py" /\ FileTab[f].parses}

\* the directories of at most n files that hold nothing but such files
Directories(n) == {d \in SUBSET Sources : Cardinality(d) <= n}

NoResult == [success |-> FALSE, error |-> "", graph |-> "None", statistics |-> << >>]

\* no parse_codebase call has returned
NoParsing ==
  [parsing_stats |-> [total_files |-> 0, successful_parses |-> 0, failed_parses |-> 0,
                      coverage_percentage |-> 0],
   parsed_files |-> << >>, failed_files |-> << >>, success |-> FALSE]

\* FileParser.__init__, and no call made
NoParser ==
  /\ parsed_files = << >>
  /\ failed_files = << >>
  /\ total_files = 0
  /\ successful_parses = 0
  /\ errors = << >>
  /\ broken = {}
  /\ parsing_result = NoParsing

\* no OPENAI_API_KEY in the environment
NoService == service = "absent"

\* SemanticAnalyzer.__init__ with LLM_DISABLE_FOR_TESTING at its default: no
\* client, both dicts empty; cache/llm holds no file and no call was made
NoAnalyzer ==
  /\ client = "None"
  /\ cache = << >>
  /\ analysis_results = << >>
  /\ cache_files = << >>
  /\ history = << >>

\* no upload was made: analysis_sessions and analysis_results are empty
NoUpload ==
  /\ engine = "legacy"
  /\ session = << >>
  /\ stored = {}
  /\ state = << >>
  /\ steps = << >>

\* no run was started, ./graph holds no file
NoExport ==
  /\ codebase_path = << >>
  /\ at = << >>
  /\ disk = << >>

\* nothing computed yet
NoGraph ==
  /\ hld_nodes = << >>
  /\ lld_nodes = << >>
  /\ system_nodes = << >>
  /\ edges = << >>

Blank ==
  /\ files = << >>
  /\ relationship_results = << >>
  /\ viz_nodes = << >>
  /\ viz_edges = << >>
  /\ position = << >>
  /\ do_cluster = FALSE
  /\ path_kind = "dir"
  /\ result = NoResult
  /\ run = 1
  /\ prev_nodes = << >>
  /\ prev_edges = << >>
  /\ validation_issues = << >>
  /\ NoParser
  /\ NoAnalyzer
  /\ NoUpload

Init ==
  /\ pc = "start"
  /\ dir \in Directories(MaxFiles)
  /\ Blank
  /\ NoExport
  /\ NoGraph
  /\ NoService

\* FileParser.parse_codebase: discover_files, then every file in turn
ParseCodebase ==
  /\ pc = "start"
  /\ \E en \in discover_files(dir) :
       files' = SelectSeq(en, LAMBDA f : FileTab[f].parses)
  /\ pc' = "parsed"
  /\ UNCHANGED <<others, dir, relationship_results, hld_nodes, lld_nodes, system_nodes, edges,
                 viz_nodes, viz_edges, position, do_cluster>>

\* EnhancedGraphBuilder._map_relationships
MapRelationships ==
  /\ pc = "parsed"
  /\ relationship_results' \in RelChoices(files)
  /\ pc' = "mapped"
  /\ UNCHANGED <<others, dir, files, hld_nodes, lld_nodes, system_nodes, edges, viz_nodes, viz_edges, position,
                 do_cluster>>

\* _create_enhanced_hld_nodes and _create_enhanced_lld_nodes
CreateNodes ==
  /\ pc = "mapped"
  /\ hld_nodes' = _create_enhanced_hld_nodes(files)
  /\ lld_nodes' = _create_enhanced_lld_nodes(files)
  /\ pc' = "nodes"
  /\ UNCHANGED <<others, dir, files, relationship_results, system_nodes, edges, viz_nodes, viz_edges, position,
                 do_cluster>>

\* _create_system_nodes_and_edges
CreateSystem ==
  /\ pc = "nodes"
  /\ \E cds \in With(Clusters(files), LAMBDA cl : Product([i \in 1..Len(cl) |-> CommonDirs(cl[i])])),
        imps \in Product([i \in 1..Len(files) |-> Orders(ImportTargets(files[i], files))]) :
     \E sys \in {SystemNodes(files, hld_nodes, lld_nodes, cds)} :
       /\ system_nodes' = sys
       /\ hld_nodes' = HldAfterSystem(hld_nodes, sys)
       /\ lld_nodes' = LldAfterSystem(lld_nodes, sys)
       /\ edges' = SystemContains(sys) \o SystemDepends(files, sys, imps)
  /\ pc' = "system"
  /\ UNCHANGED <<others, dir, files, relationship_results, viz_nodes, viz_edges, position, do_cluster>>

\* _create_enhanced_graph_edges, then Graph(nodes, edges): build_enhanced_graph returns
CreateEdges ==
  /\ pc = "system"
  /\ edges' = BusinessContains(hld_nodes, lld_nodes)
              \o _create_relationship_edges(files, relationship_results, lld_nodes)
              \o edges
  /\ hld_nodes' = HldAfterEdges(hld_nodes, lld_nodes)
  /\ lld_nodes' = LldAfterEdges(hld_nodes, lld_nodes)
  /\ pc' = "built"
  /\ UNCHANGED <<others, dir, files, relationship_results, system_nodes, viz_nodes, viz_edges, position, do_cluster>>

\* graph.nodes
GraphNodes == hld_nodes \o system_nodes \o lld_nodes

\* convert_analysis_result_to_frontend_format and _build_viz_from_frontend
BuildViz ==
  /\ pc = "built"
  /\ viz_nodes' = NamedVizNodes(GraphNodes, edges, dir, service)
  /\ viz_edges' = VizEdges(GraphNodes, edges, dir)
  /\ position' = Positions(GraphNodes, edges, dir)
  /\ do_cluster' = (Len(system_nodes) > 5)
  /\ pc' = "viz"
  /\ UNCHANGED <<others, dir, files, relationship_results, hld_nodes, lld_nodes, system_nodes, edges>>

Next ==
  \/ ParseCodebase
  \/ MapRelationships
  \/ CreateNodes
  \/ CreateSystem
  \/ CreateEdges
  \/ BuildViz

Spec == Init /\ [][Next]_vars

\* ------------------------------------------------------------------------
\* The pipeline run twice on one directory
\* ------------------------------------------------------------------------
InitDet ==
  /\ pc = "start"
  /\ dir \in Directories(MaxDetFiles)
  /\ Blank
  /\ NoExport
  /\ NoGraph
  /\ NoService

\* the output is kept and the directory is analysed again
Rerun ==
  /\ pc = "viz"
  /\ run = 1
  /\ run' = 2
  /\ prev_nodes' = viz_nodes
  /\ prev_edges' = viz_edges
  /\ pc' = "start"
  /\ files' = << >>
  /\ relationship_results' = << >>
  /\ hld_nodes' = << >>
  /\ lld_nodes' = << >>
  /\ system_nodes' = << >>
  /\ edges' = << >>
  /\ viz_nodes' = << >>
  /\ viz_edges' = << >>
  /\ position' = << >>
  /\ do_cluster' = FALSE
  /\ UNCHANGED <<dir, path_kind, result, parser, service, validation_issues, analyzer, web, exporting>>

NextDet ==
  \/ Next
  \/ Rerun

SpecDet == InitDet /\ [][NextDet]_vars

\* ------------------------------------------------------------------------
\* The pipeline with a naming service
\* ------------------------------------------------------------------------
InitName ==
  /\ pc = "start"
  /\ dir \in Directories(MaxNameFiles)
  /\ Blank
  /\ NoExport
  /\ NoGraph
  /\ service \in Services

SpecName == InitName /\ [][Next]_vars

\* ------------------------------------------------------------------------
\* CodebaseAnalyzer.analyze_codebase (codebase_analyzer.py)
\* ------------------------------------------------------------------------
\* FileUtils.validate_codebase_path
validate_codebase_path_AnyFile(kind, d) == kind = "dir" /\ d # {}

validate_codebase_path(kind, d) ==
  /\ kind = "dir"
  /\ d # {}
  /\ \E f \in d : should_include_file(f)

_create_error_result(msg) ==
  [success |-> FALSE, error |-> msg, graph |-> "None", statistics |-> << >>]

\* GraphBuilder.validate_graph on the nodes and edges of a GraphBuilder: the
\* orphaned nodes, the parent and child references and the edge ends that name
\* no node
validate_graph(nodes, es) ==
  With(SelectSeq(nodes, LAMBDA n :
         /\ n.children = << >>
         /\ n.parent = NoneId
         /\ \A e \in Range(es) : e.from_node # n.id /\ e.to_node # n.id), LAMBDA orphaned :
    [k \in 1..Len(orphaned) |-> <<"Orphaned node", orphaned[k].id>>])
  \o Flatten([i \in 1..Len(nodes) |->
        (IF nodes[i].parent # NoneId /\ ~DictHas(nodes, nodes[i].parent)
         THEN << <<"Invalid parent reference", nodes[i].id>> >> ELSE << >>)
        \o With(SelectSeq(nodes[i].children, LAMBDA c : ~DictHas(nodes, c)), LAMBDA lost :
              [k \in 1..Len(lost) |-> <<"Invalid child reference", nodes[i].id>>])])
  \o Flatten([i \in 1..Len(es) |->
        (IF ~DictHas(nodes, es[i].from_node)
         THEN << <<"Invalid edge source", es[i].from_node>> >> ELSE << >>)
        \o (IF ~DictHas(nodes, es[i].to_node)
            THEN << <<"Invalid edge target", es[i].to_node>> >> ELSE << >>)])

\* the GraphBuilder of the analyzer, and the one of EnhancedGraphBuilder: made
\* empty, and no code calls add_node or add_edge on them
GraphBuilder == [nodes |-> << >>, edges |-> << >>]

\* parsing_stats of FileParser._create_parsing_result; the percentage is
\* truncated to an integer
parsing_stats(d, fs) ==
  LET total == Cardinality({f \in d : should_include_file(f)}) IN
  [total_files |-> total,
   successful_parses |-> Len(fs),
   coverage_percentage |-> IF total > 0 THEN (Len(fs) * 100) \div total ELSE 100]

InitAn ==
  /\ pc = "analyze"
  /\ path_kind \in {"missing", "file", "dir"}
  /\ dir \in {d \in SUBSET Files : Cardinality(d) <= MaxAnFiles /\ (path_kind # "dir" => d = {})}
  /\ files = << >>
  /\ relationship_results = << >>
  /\ viz_nodes = << >>
  /\ viz_edges = << >>
  /\ position = << >>
  /\ do_cluster = FALSE
  /\ result = NoResult
  /\ run = 1
  /\ prev_nodes = << >>
  /\ prev_edges = << >>
  /\ validation_issues = << >>
  /\ NoGraph
  /\ NoParser
  /\ NoService
  /\ NoAnalyzer
  /\ NoUpload
  /\ NoExport

\* analyze_codebase, up to the parsing: an invalid path returns at once
ValidatePath ==
  /\ pc = "analyze"
  /\ IF validate_codebase_path(path_kind, dir)
     THEN pc' = "start" /\ UNCHANGED result
     ELSE pc' = "returned" /\ result' = _create_error_result("Invalid codebase path")
  /\ UNCHANGED <<dir, files, relationship_results, hld_nodes, lld_nodes, system_nodes, edges,
                 viz_nodes, viz_edges, position, do_cluster, path_kind, run, prev_nodes, prev_edges, parser, service,
                 validation_issues, analyzer, web, exporting>>

\* analyze_codebase, after build_enhanced_graph: the export, then
\* _create_enhanced_analysis_result.  Its list comprehensions read
\* NodeLevel.HLD for every node of the graph; NodeLevel has no such member, the
\* AttributeError is caught by analyze_codebase.
CreateResult ==
  /\ pc = "built"
  /\ result' = IF GraphNodes # << >>
               THEN _create_error_result("Analysis failed")
               ELSE [success |-> TRUE, error |-> "", graph |-> "Graph",
                     statistics |-> parsing_stats(dir, files)]
  \* validation_issues = self.graph_builder.validate_graph(); the error result has []
  /\ validation_issues' = IF GraphNodes # << >>
                          THEN << >>
                          ELSE validate_graph(GraphBuilder.nodes, GraphBuilder.edges)
  /\ pc' = "returned"
  /\ UNCHANGED <<dir, files, relationship_results, hld_nodes, lld_nodes, system_nodes, edges,
                 viz_nodes, viz_edges, position, do_cluster, path_kind, run, prev_nodes, prev_edges, parser, service,
                 analyzer, web, exporting>>

NextAn ==
  \/ ValidatePath
  \/ ParseCodebase
  \/ MapRelationships
  \/ CreateNodes
  \/ CreateSystem
  \/ CreateEdges
  \/ CreateResult

SpecAn == InitAn /\ [][NextAn]_vars

\* ------------------------------------------------------------------------
\* upload_analysis (flask_app.py) and the workflow of langgraph_pipeline.py
\* ------------------------------------------------------------------------
\* the 'engine' form field, lower-cased: anything but "langgraph" is the legacy path
Engines == {"legacy", "langgraph"}

\* the nodes of create_workflow, in the order of its edges
WorkflowNodes == <<"init_input", "analyze_codebase", "convert_to_frontend", "build_viz", "finalize">>

\* Python's truth value of an optional dict: None is false, a dict with keys is true
Truthy(x) == x # "None"

\* convert_analysis_result_to_frontend_format: None when the result holds no
\* graph, else the dict with metadata, nodes and edges
convert_analysis_result_to_frontend_format(r) ==
  IF r = NoResult \/ r.graph = "None" THEN "None" ELSE "frontend"

\* _build_viz_from_frontend: the viz dict with metadata, nodes and edges; an
\* empty frontend dict gives the dict with empty lists
_build_viz_from_frontend(frontend) ==
  IF frontend = "{}" THEN "empty viz" ELSE "viz"

\* initial_state of upload_analysis
initial_state ==
  [progress |-> 10, message |-> "Initialized", analyzed |-> NoResult,
   frontend_graph_core |-> "None", viz_graph |-> "None"]

\* a node's returned dict updates the keys it names; the step is remembered
Update(node, out) ==
  /\ state' = [k \in DOMAIN state |-> IF k \in DOMAIN out THEN out[k] ELSE state[k]]
  /\ steps' = Append(steps, [node |-> node, progress |-> out.progress])

Max(a, b) == IF a >= b THEN a ELSE b

\* the temporary directory of an upload holds the uploaded files
InitUpload ==
  /\ pc = "upload"
  /\ dir \in {d \in SUBSET Files : Cardinality(d) <= MaxAnFiles}
  /\ Blank
  /\ NoExport
  /\ NoGraph
  /\ NoService

\* upload_analysis, up to the analysis: the session is created, the engine chosen
upload_analysis ==
  /\ pc = "upload"
  /\ \E e \in Engines :
       /\ engine' = e
       /\ IF e = "langgraph"
          THEN /\ state' = initial_state
               /\ steps' = <<[node |-> "START", progress |-> initial_state.progress]>>
               /\ pc' = "init_input"
          ELSE /\ pc' = "analyze"
               /\ UNCHANGED <<state, steps>>
  /\ session' = [status |-> "processing", progress |-> 25, message |-> "Analyzing codebase..."]
  /\ UNCHANGED <<dir, files, relationship_results, hld_nodes, lld_nodes, system_nodes, edges,
                 viz_nodes, viz_edges, position, do_cluster, path_kind, result, run, prev_nodes,
                 prev_edges, parser, service, validation_issues, analyzer, exporting, stored>>

\* the tail of upload_analysis: the graph is stored when there is one
Respond(frontend_data) ==
  /\ IF Truthy(frontend_data)
     THEN /\ stored' = stored \cup {"analysis_id"}
          /\ session' = [status |-> "completed", progress |-> 100,
                         message |-> "Analysis completed successfully"]
     ELSE /\ session' = [session EXCEPT !.status = "error",
                                        !.message = "Failed to process analysis result"]
          /\ UNCHANGED stored
  /\ pc' = "responded"

\* frontend_data of the legacy path: the converted result, and the viz built
\* from it when there is one
legacy_frontend_data(r) ==
  LET frontend_data == convert_analysis_result_to_frontend_format(r) IN
  IF Truthy(frontend_data) THEN _build_viz_from_frontend(frontend_data) ELSE frontend_data

\* the legacy path of upload_analysis, once analyze_codebase has returned
LegacyPath ==
  /\ pc = "returned"
  /\ engine = "legacy"
  /\ session # << >>
  /\ Respond(legacy_frontend_data(result))
  /\ UNCHANGED <<dir, files, relationship_results, hld_nodes, lld_nodes, system_nodes, edges,
                 viz_nodes, viz_edges, position, do_cluster, path_kind, result, run, prev_nodes,
                 prev_edges, parser, service, validation_issues, analyzer, exporting, engine, state, steps>>

\* what a workflow node leaves alone
unflowed == <<dir, files, relationship_results, hld_nodes, lld_nodes, system_nodes, edges,
              viz_nodes, viz_edges, position, do_cluster, path_kind, result, run, prev_nodes,
              prev_edges, parser, service, validation_issues, analyzer, exporting, engine, session, stored>>

node_init_input ==
  /\ pc = "init_input"
  /\ Update("init_input", [progress |-> 5, message |-> "Initialized workflow"])
  /\ pc' = "analyze"
  /\ UNCHANGED unflowed

\* node_analyze_codebase, once its analyze_codebase call has returned
node_analyze_codebase ==
  /\ pc = "returned"
  /\ engine = "langgraph"
  /\ session # << >>
  /\ Update("analyze_codebase", [analyzed |-> result, progress |-> Max(20, state.progress),
                                 message |-> "Codebase analyzed"])
  /\ pc' = "convert_to_frontend"
  /\ UNCHANGED unflowed

node_convert_to_frontend ==
  /\ pc = "convert_to_frontend"
  /\ IF state.analyzed = NoResult
     THEN Update("convert_to_frontend", [message |-> "No analysis available",
                                         progress |-> state.progress])
     ELSE Update("convert_to_frontend",
                 [frontend_graph_core |-> convert_analysis_result_to_frontend_format(state.analyzed),
                  progress |-> Max(40, state.progress),
                  message |-> "Converted to frontend format"])
  /\ pc' = "build_viz"
  /\ UNCHANGED unflowed

\* frontend = state.get("frontend_graph_core") or {}
node_build_viz ==
  /\ pc = "build_viz"
  /\ LET frontend == IF Truthy(state.frontend_graph_core) THEN state.frontend_graph_core
                     ELSE "{}" IN
       Update("build_viz", [viz_graph |-> _build_viz_from_frontend(frontend),
                            progress |-> Max(70, state.progress),
                            message |-> "Visualization built"])
  /\ pc' = "finalize"
  /\ UNCHANGED unflowed

node_finalize ==
  /\ pc = "finalize"
  /\ Update("finalize", [progress |-> 100, message |-> "Analysis completed successfully"])
  /\ pc' = "END"
  /\ UNCHANGED unflowed

\* the LangGraph path of upload_analysis, once app.invoke has returned
LangGraphPath ==
  /\ pc = "END"
  /\ Respond(state.viz_graph)
  /\ UNCHANGED <<dir, files, relationship_results, hld_nodes, lld_nodes, system_nodes, edges,
                 viz_nodes, viz_edges, position, do_cluster, path_kind, result, run, prev_nodes,
                 prev_edges, parser, service, validation_issues, analyzer, exporting, engine, state, steps>>

NextUpload ==
  \/ upload_analysis
  \/ NextAn
  \/ LegacyPath
  \/ node_init_input
  \/ node_analyze_codebase
  \/ node_convert_to_frontend
  \/ node_build_viz
  \/ node_finalize
  \/ LangGraphPath

SpecUpload == InitUpload /\ [][NextUpload]_vars

\* C28: an upload ends with the same session status and the same presence of
\* a stored graph under the LangGraph engine as under the legacy engine; when
\* analyze_codebase reports a failure, no graph is stored and the session
\* status is 'error', whichever engine ran
C28_EnginesAgree ==
  pc = "responded" =>
    /\ ("analysis_id" \in stored) <=> Truthy(legacy_frontend_data(result))
    /\ (session.status = "completed") <=> Truthy(legacy_frontend_data(result))
    /\ ~result.success => stored = {} /\ session.status = "error"

\* C29: the workflow runs init_input, analyze_codebase, convert_to_frontend,
\* build_viz and finalize in this order, the progress of the workflow state
\* never decreases from the initial state on, and it is 100 at the end
C29_StepsInOrder ==
  /\ \A i \in 2..Len(steps) : steps[i].node = WorkflowNodes[i - 1]
  /\ \A i \in 1..(Len(steps) - 1) : steps[i].progress <= steps[i + 1].progress
  /\ pc = "END" => Len(steps) = Len(WorkflowNodes) + 1 /\ state.progress = 100

\* ------------------------------------------------------------------------
\* the files analysis runs write under ./graph (codebase_analyzer.py,
\* enhanced_exporter.py, flask_app.py)
\* ------------------------------------------------------------------------
MaxRuns == 2

Runs == 1..MaxRuns

\* the directories a run may be given, as path segments: two projects of the
\* same name in different places, another project, a temporary directory
CodebasePaths ==
  {<<"home", "a", "app">>, <<"home", "b", "app">>, <<"home", "a", "lib">>, <<"tmp", "tmpk3x">>}

\* datetime.now().strftime("%Y%m%d_%H%M%S") of two runs: the same second or the next
Timestamps == {"20250101_120000", "20250101_120001"}

\* EnhancedExporter.export_formats, as the suffixes export_graph gives them
ExportSuffixes == {".json", ".yaml", ".csv", ".dot", ".html", ".mmd"}

\* Path(p).name and Path(p).parts[-1]
PathName(p) == IF p = << >> THEN "" ELSE p[Len(p)]

\* Path("graph") / Path(codebase_path).name / "exports"
export_dir(p) == <<"graph", PathName(p), "exports">>

\* a file of a directory; the name is stem, timestamp and suffix
File(d, stem, stamp, suffix) == [dir |-> d, name |-> <<stem, stamp, suffix>>]

\* the files export_graph and _export_analysis_results write
ExportedFiles(p, stamp) ==
  {File(export_dir(p), "autograph_graph_", stamp, x) : x \in ExportSuffixes}
    \cup {File(export_dir(p), "export_report", "", ".md")}

\* the files _build_viz_from_frontend writes
VizFiles(p) ==
  {File(export_dir(p), stem, "", ".json") : stem \in {"viz_core", "viz_layout", "viz_meta"}}

\* open(path, 'w') and write_text by run r: the file holds what r wrote
Write(fs, r) ==
  [f \in DOMAIN disk \cup fs |->
     IF f \in fs
     THEN (IF f \in DOMAIN disk THEN Append(disk[f], r) ELSE <<r>>)
     ELSE disk[f]]

InitExport ==
  /\ pc = "runs"
  /\ dir = {}
  /\ Blank
  /\ NoGraph
  /\ NoService
  /\ codebase_path \in [Runs -> CodebasePaths]
  /\ at = [r \in Runs |-> "analyze"]
  /\ disk = << >>

unexported == <<pc, dir, files, relationship_results, hld_nodes, lld_nodes, system_nodes, edges,
                viz_nodes, viz_edges, position, do_cluster, path_kind, result, run, prev_nodes,
                prev_edges, parser, service, validation_issues, analyzer, web, codebase_path>>

\* step 4 of analyze_codebase in run r
_export_analysis_results(r) ==
  /\ at[r] = "analyze"
  /\ \E stamp \in Timestamps : disk' = Write(ExportedFiles(codebase_path[r], stamp), r)
  /\ at' = [at EXCEPT ![r] = "exported"]
  /\ UNCHANGED unexported

\* the split artifacts of _build_viz_from_frontend in run r
ExportViz(r) ==
  /\ at[r] = "exported"
  /\ disk' = Write(VizFiles(codebase_path[r]), r)
  /\ at' = [at EXCEPT ![r] = "done"]
  /\ UNCHANGED unexported

NextExport ==
  \/ \E r \in Runs : _export_analysis_results(r)
  \/ \E r \in Runs : ExportViz(r)

SpecExport == InitExport /\ [][NextExport]_vars

\* C21: two runs on different codebase directories that have created their
\* export directories have created different ones, and no file under ./graph
\* was written by both
C21_RunsWriteDisjointPaths ==
  \A r, s \in Runs :
    codebase_path[r] # codebase_path[s] =>
      /\ (at[r] # "analyze" /\ at[s] # "analyze") =>
           export_dir(codebase_path[r]) # export_dir(codebase_path[s])
      /\ \A f \in DOMAIN disk : ~(\E i, j \in 1..Len(disk[f]) : disk[f][i] = r /\ disk[f][j] = s)

\* ------------------------------------------------------------------------
\* FileParser (file_parser.py): calls on one instance
\* ------------------------------------------------------------------------
\* the files a parsed directory may hold: two Python files of one package, an
\* image, a text file and a Python file that never parses
ParseUniverse == {1, 2, 9, 10, 11}

\* PythonASTParser.parse_file: False on a syntax error; _parse_generic_file
\* stores its entry whatever the content
Parses(f, brk) == FileTab[f].suffix # ".py" \/ (FileTab[f].parses /\ f \notin brk)

\* self.parsed_files[str(file_path)] = {...}: a key keeps its place
PutKey(keys, f) == IF f \in Range(keys) THEN keys ELSE Append(keys, f)

\* a FileParser as a record of its fields
ParserFields ==
  [parsed_files |-> parsed_files, failed_files |-> failed_files,
   total_files |-> total_files, successful_parses |-> successful_parses, errors |-> errors]

\* FileParser.__init__
NewParser ==
  [parsed_files |-> << >>, failed_files |-> << >>, total_files |-> 0, successful_parses |-> 0,
   errors |-> << >>]

\* _parse_single_file that counts a failed file as parsed too
_parse_single_file_CountsFailed(p, f, brk) ==
  IF Parses(f, brk)
  THEN [p EXCEPT !.parsed_files = PutKey(@, f), !.successful_parses = @ + 1,
                 !.errors = IF FileTab[f].suffix = ".py" THEN << >> ELSE @]
  ELSE [p EXCEPT !.failed_files = Append(@, f), !.successful_parses = @ + 1,
                 !.errors = Append(@, f)]

\* PythonASTParser.parse_file clears self.errors once the source has parsed
\* and appends the message, here the file, on a syntax error; a generic file
\* leaves the list alone
_parse_single_file(p, f, brk) ==
  IF Parses(f, brk)
  THEN [p EXCEPT !.parsed_files = PutKey(@, f), !.successful_parses = @ + 1,
                 !.errors = IF FileTab[f].suffix = ".py" THEN << >> ELSE @]
  ELSE [p EXCEPT !.failed_files = Append(@, f), !.errors = Append(@, f)]

\* parsed_files[f]['errors']: the entry of a generic file holds a list of its
\* own; the entry of a Python file holds what get_errors returned, which is
\* python_parser.errors itself
errors_entry(f) == IF FileTab[f].suffix = ".py" THEN errors ELSE << >>

RECURSIVE ParseEach(_, _, _)
\* for file_path in files: self._parse_single_file(file_path, codebase_path)
ParseEach(p, fs, brk) ==
  IF fs = << >> THEN p ELSE ParseEach(_parse_single_file(p, Head(fs), brk), Tail(fs), brk)

\* the percentage, truncated to an integer
_create_parsing_result(p) ==
  [parsing_stats |->
     [total_files |-> p.total_files,
      successful_parses |-> p.successful_parses,
      failed_parses |-> Len(p.failed_files),
      coverage_percentage |-> IF p.total_files > 0
                              THEN (p.successful_parses * 100) \div p.total_files ELSE 100],
   parsed_files |-> p.parsed_files, failed_files |-> p.failed_files, success |-> TRUE]

\* the parser after parse_codebase on files discovered in the order fs
ParsedWith(p, fs, brk) == ParseEach([p EXCEPT !.total_files = Len(fs)], fs, brk)

InitParse ==
  /\ pc = "fresh"
  /\ dir = {}
  /\ Blank
  /\ NoExport
  /\ NoGraph
  /\ NoService

\* FileParser(): a new instance replaces the one in use
FileParser ==
  /\ pc \in {"once", "twice"}
  /\ pc' = "fresh"
  /\ dir' = {}
  /\ files' = << >>
  /\ parsed_files' = NewParser.parsed_files
  /\ failed_files' = NewParser.failed_files
  /\ total_files' = NewParser.total_files
  /\ successful_parses' = NewParser.successful_parses
  /\ errors' = NewParser.errors
  /\ broken' = {}
  /\ parsing_result' = NoParsing
  /\ UNCHANGED <<relationship_results, hld_nodes, lld_nodes, system_nodes, edges, viz_nodes,
                 viz_edges, position, do_cluster, path_kind, result, run, prev_nodes, prev_edges, service,
                 validation_issues, analyzer, web, exporting>>

\* parse_codebase on the instance in use: the directory and the content of its
\* files are those of the moment of the call
parse_codebase ==
  /\ pc \in {"fresh", "once"}
  /\ pc' = IF pc = "fresh" THEN "once" ELSE "twice"
  /\ \E d \in {e \in SUBSET ParseUniverse : Cardinality(e) <= MaxParseFiles} :
     \E brk \in SUBSET {f \in d : FileTab[f].suffix = ".py"} :
     \E fs \in discover_files(d) :
     \E p \in {ParsedWith(ParserFields, fs, brk)} :
       /\ dir' = d
       /\ broken' = brk
       /\ files' = fs
       /\ parsed_files' = p.parsed_files
       /\ failed_files' = p.failed_files
       /\ total_files' = p.total_files
       /\ successful_parses' = p.successful_parses
       /\ errors' = p.errors
       /\ parsing_result' = _create_parsing_result(p)
  /\ UNCHANGED <<relationship_results, hld_nodes, lld_nodes, system_nodes, edges, viz_nodes,
                 viz_edges, position, do_cluster, path_kind, result, run, prev_nodes, prev_edges, service,
                 validation_issues, analyzer, web, exporting>>

NextParse ==
  \/ FileParser
  \/ parse_codebase

SpecParse == InitParse /\ [][NextParse]_vars

\* C30: the 'errors' list of the entry of a successfully parsed Python file
\* is empty, whatever was parsed after it in the same or a later
\* parse_codebase call on the instance
C30_ErrorsStayEmpty ==
  \A i \in 1..Len(parsed_files) :
    FileTab[parsed_files[i]].suffix = ".py" => errors_entry(parsed_files[i]) = << >>

\* ------------------------------------------------------------------------
\* SemanticAnalyzer.analyze_file_semantics (semantic_analyzer.py) and the
\* LLMClient it calls (llm_client.py)
\* ------------------------------------------------------------------------
\* the members of the enumeration NodeLevel (schemas.py)
NodeLevel == {"BUSINESS", "SYSTEM", "IMPLEMENTATION"}

\* the requests drawn: paths as segments, the last one the file name
SemPaths == {<<"a", "core.py">>, <<"b", "core.py">>, <<"a", "utils.py">>}
SemContents == {"def f(): pass", "def f(): return 1"}
Symbols(fns, cls, imps) == [functions |-> fns, classes |-> cls, imports |-> imps]
SemSymbols == {Symbols(<< >>, << >>, << >>), Symbols(<<"f">>, << >>, << >>),
               Symbols(<<"g">>, << >>, << >>), Symbols(<< >>, <<"K">>, << >>)}

\* Path(file_path).name and Path(file_path).stem
FileName(file_path) == file_path[Len(file_path)]
FileStem(file_path) == IF FileName(file_path) = "core.py" THEN "core" ELSE "utils"

\* SemanticAnalyzer._generate_cache_key: the md5 of the path and of the three
\* symbol counts; distinct strings are taken to have distinct digests
_generate_cache_key(file_path, symbols) ==
  <<file_path, Len(symbols.functions), Len(symbols.classes), Len(symbols.imports)>>

\* LLMClient._generate_cache_key: the stem, and the digests of the content and
\* of the symbols
llm_cache_key(file_path, file_content, symbols) ==
  <<FileStem(file_path), file_content, symbols>>

\* a dict kept as a sequence of [key, value] entries
Has(d, key) == \E i \in 1..Len(d) : d[i].key = key
Get(d, key) == (CHOOSE e \in Range(d) : e.key = key).value
Put(d, key, value) ==
  IF Has(d, key)
  THEN [i \in 1..Len(d) |-> IF d[i].key = key THEN [key |-> key, value |-> value] ELSE d[i]]
  ELSE Append(d, [key |-> key, value |-> value])

\* an analysis: the fields the analyzers fill in (confidence in percent)
Analysis(level, type, purpose, complexity, method) ==
  [purpose |-> purpose, level |-> level, component_type |-> type, complexity |-> complexity,
   relationships |-> << >>, confidence |-> 50, analysis_method |-> method]

\* LLMClient._get_default_result
_get_default_result == Analysis("LLD", "Function", "Code component", "low", "llm")

\* LLMClient._fallback_analysis: the rules on the file name that the drawn
\* paths can meet ('util' in the name), then the rules on the symbols
_fallback_analysis(file_path, symbols) ==
  IF FileName(file_path) = "utils.py"
  THEN Analysis("LLD", "Utility", "Utility functions and helper methods", "low", "fallback")
  ELSE IF symbols.classes # << >>
  THEN Analysis("LLD", "Class", "Class definitions and implementations", "medium", "fallback")
  ELSE IF symbols.functions # << >>
  THEN Analysis("LLD", "Function", "Function implementations", "low", "fallback")
  ELSE Analysis("LLD", "File", "Code file with various components", "low", "fallback")

\* what the completion request may do: raise, or answer with a text that
\* _parse_llm_response normalises to one of these results
Replies == {"raises", "default", "service"}
_parse_llm_response(reply) ==
  IF reply = "service"
  THEN Analysis("HLD", "Service", "Business logic", "medium", "llm")
  ELSE _get_default_result

\* LLMClient.analyze_component: the result, and the files of cache/llm after it
\* (LLM_CACHE_ENABLED at its default, true)
analyze_component(cl, fls, file_path, file_content, symbols, reply) ==
  IF cl = "None"
  THEN [result |-> _fallback_analysis(file_path, symbols), files |-> fls]
  ELSE IF Has(fls, llm_cache_key(file_path, file_content, symbols))
  THEN [result |-> Get(fls, llm_cache_key(file_path, file_content, symbols)), files |-> fls]
  ELSE IF reply = "raises"
  THEN [result |-> _fallback_analysis(file_path, symbols), files |-> fls]
  ELSE [result |-> _parse_llm_response(reply),
        files |-> Put(fls, llm_cache_key(file_path, file_content, symbols),
                      _parse_llm_response(reply))]

\* SemanticAnalyzer._map_component_type and _map_complexity
_map_component_type(component_type) ==
  IF component_type \in {"Module", "API", "Service", "Function", "Class", "Utility",
                         "Controller", "Model", "Database", "Client", "Component"}
  THEN component_type ELSE "Function"
_map_complexity(complexity) ==
  IF complexity \in {"low", "medium", "high"} THEN complexity ELSE "low"

\* how a call ends: with a value, or with an exception and no value
NoAnalysis == Analysis("", "", "", "", "")
Returns(value) == [raised |-> "", value |-> value]
Raises(exception) == [raised |-> exception, value |-> NoAnalysis]

\* SemanticAnalyzer._convert_llm_result: the level is read as NodeLevel.HLD or
\* NodeLevel.LLD; reading a name the enumeration does not have raises
_convert_llm_result(llm_result) ==
  IF (IF llm_result.level = "HLD" THEN "HLD" ELSE "LLD") \notin NodeLevel
  THEN Raises("AttributeError")
  ELSE Returns([llm_result EXCEPT
                  !.level = IF llm_result.level = "HLD" THEN "HLD" ELSE "LLD",
                  !.component_type = _map_component_type(llm_result.component_type),
                  !.complexity = _map_complexity(llm_result.complexity)])

\* one analyze_file_semantics call on an analyzer with the dicts c and r and the
\* cache files fls: how it ends, and what it leaves
Analysed(cl, c, r, fls, file_path, file_content, symbols, reply) ==
  IF Has(c, _generate_cache_key(file_path, symbols))
  THEN [hit |-> TRUE, outcome |-> Returns(Get(c, _generate_cache_key(file_path, symbols))),
        cache |-> c, analysis_results |-> r, files |-> fls]
  ELSE With(analyze_component(cl, fls, file_path, file_content, symbols, reply),
         LAMBDA llm :
       With(_convert_llm_result(llm.result),
         LAMBDA semantic_analysis :
           IF semantic_analysis.raised # ""
           THEN [hit |-> FALSE, outcome |-> semantic_analysis,
                 cache |-> c, analysis_results |-> r, files |-> llm.files]
           ELSE [hit |-> FALSE, outcome |-> semantic_analysis,
                 cache |-> Put(c, _generate_cache_key(file_path, symbols),
                               semantic_analysis.value),
                 analysis_results |-> Put(r, file_path, semantic_analysis.value),
                 files |-> llm.files]))

InitCache ==
  /\ pc = "semantic"
  /\ dir = {}
  /\ Blank
  /\ NoExport
  /\ NoGraph
  /\ NoService

\* SemanticAnalyzer(): the instance, made with or without a client
SemanticAnalyzer ==
  /\ pc = "semantic"
  /\ pc' = "ready"
  /\ client' \in {"None", "OpenAI"}
  /\ cache' = << >>
  /\ analysis_results' = << >>
  /\ history' = << >>
  /\ UNCHANGED <<dir, files, relationship_results, hld_nodes, lld_nodes, system_nodes, edges,
                 viz_nodes, viz_edges, position, do_cluster, path_kind, result, run, prev_nodes,
                 prev_edges, parser, service, validation_issues, cache_files, web, exporting>>

\* analyze_file_semantics on the instance.  The history keeps, with the request,
\* how the call ended, how the same call ends on an analyzer whose cache is
\* empty, and the number of entries of the cache after the call.
analyze_file_semantics ==
  /\ pc = "ready"
  /\ Len(history) < MaxCalls
  /\ \E file_path \in SemPaths, file_content \in SemContents, symbols \in SemSymbols,
        reply \in Replies :
     \E a \in {Analysed(client, cache, analysis_results, cache_files,
                        file_path, file_content, symbols, reply)} :
     \E fresh \in {Analysed(client, << >>, << >>, cache_files,
                            file_path, file_content, symbols, reply)} :
       /\ cache' = a.cache
       /\ analysis_results' = a.analysis_results
       /\ cache_files' = a.files
       /\ history' = Append(history, [file_path |-> file_path, file_content |-> file_content,
                                      symbols |-> symbols, hit |-> a.hit, outcome |-> a.outcome,
                                      fresh |-> fresh.outcome, entries |-> Len(a.cache)])
  /\ UNCHANGED <<pc, dir, files, relationship_results, hld_nodes, lld_nodes, system_nodes, edges,
                 viz_nodes, viz_edges, position, do_cluster, path_kind, result, run, prev_nodes,
                 prev_edges, parser, service, validation_issues, client, web, exporting>>

NextCache ==
  \/ SemanticAnalyzer
  \/ analyze_file_semantics

SpecCache == InitCache /\ [][NextCache]_vars

\* ------------------------------------------------------------------------
\* The roll-up on graphs with many calls between systems
\* ------------------------------------------------------------------------
\* build_viz_draft.py
MIN_WEIGHT == 1

\* a graph of seven SYSTEM nodes, each with one IMPLEMENTATION child
RollDirs == <<"api", "proj", "models", "pkg", "config", "managers", "actions">>
RollSystem(i) ==
  [GraphNode(SystemId(RollDirs[i], i), <<RollDirs[i]>>, "Service", "SYSTEM", << >>, << >>, << >>)
     EXCEPT !.children = << <<"function_group", "Other", RollDirs[i]>> >>]
RollImpl(i) ==
  [GraphNode(<<"function_group", "Other", RollDirs[i]>>,
             IF i = 1 THEN <<"llm", "Functions">> ELSE <<"Other", "Functions">>,
             "Function_Group", "IMPLEMENTATION", << >>, << <<"run">> >>, << >>)
     EXCEPT !.parent = SystemId(RollDirs[i], i)]

\* w[i] calls edges from the implementation node of system 1 to that of system i,
\* back calls edges from the one of system 3 to the one of system 1
RollEdges(w, back) ==
  [i \in 1..Len(RollDirs) |-> GraphEdge(RollSystem(i).id, RollImpl(i).id, "contains")]
  \o Flatten([j \in 1..(Len(RollDirs) - 1) |->
        [k \in 1..w[j + 1] |-> GraphEdge(RollImpl(1).id, RollImpl(j + 1).id, "calls")]])
  \o [k \in 1..back |-> GraphEdge(RollImpl(3).id, RollImpl(1).id, "calls")]

InitRoll ==
  /\ Blank
  /\ NoExport
  /\ NoService
  /\ pc = "built"
  /\ dir = {4}
  /\ \E w \in [2..Len(RollDirs) -> {0, MaxW - 1, MaxW}], back \in {0, MaxW} :
       /\ hld_nodes = << >>
       /\ system_nodes = [i \in 1..Len(RollDirs) |-> RollSystem(i)]
       /\ lld_nodes = [i \in 1..Len(RollDirs) |-> RollImpl(i)]
       /\ edges = RollEdges(w, back)

\* '<word>' in name.lower()
NameHas(n, word) == \E i \in 1..Len(n.name) : n.name[i] = word

\* the external stubs of build_viz: one edge per hinting implementation node
DraftHints(nodes, es) ==
  With(Levelled(nodes, "IMPLEMENTATION"), LAMBDA impl :
  With(OfType(es, "contains"), LAMBDA contains :
  With(sys_api(nodes), LAMBDA api :
    Flatten([k \in 1..Len(impl) |->
      With(system_ancestor(impl[k].id, nodes, contains), LAMBDA sp :
        IF sp = NoneId THEN << >>
        ELSE (IF NameHas(impl[k], "externalapi")
              THEN <<VizEdge(sp, <<"external", "api", "provider">>, "depends_on", 1)>> ELSE << >>)
             \o (IF NameHas(impl[k], "llm")
                 THEN <<VizEdge(sp, ExternalLlm, "depends_on", 1)>> ELSE << >>)
             \o (IF NameHas(impl[k], "auth")
                 THEN <<VizEdge(IF api = NoneId THEN sp ELSE api, ExternalAuth, "depends_on", 1)>>
                 ELSE << >>))]))))

\* add_external_stub(viz_nodes, viz_edges, api_sys, "actor_user", ...)
DraftActor(nodes) ==
  IF sys_api(nodes) = NoneId THEN << >>
  ELSE <<VizEdge(sys_api(nodes), ActorUser, "depends_on", 1)>>

DraftStubNode(id) ==
  GraphNode(id, id, IF id = ActorUser THEN "Actor" ELSE "External", "SYSTEM", << >>, << >>, << >>)

\* the stub nodes: one per stub id, in the order the stub edges are added
DraftStubNodes(stubs) ==
  With(Dedup([k \in 1..Len(stubs) |-> stubs[k].to_node]), LAMBDA ids :
    [k \in 1..Len(ids) |-> DraftStubNode(ids[k])])

\* the contains edges, as build_viz copies them
DraftContains(cs) ==
  [k \in 1..Len(cs) |-> VizEdge(cs[k].from_node, cs[k].to_node, "contains", 1)]

\* build_viz of build_viz_draft.py, on the same graph
build_viz ==
  /\ pc = "built"
  /\ \E stubs \in {DraftHints(GraphNodes, edges) \o DraftActor(GraphNodes)} :
       /\ viz_nodes' = GraphNodes \o DraftStubNodes(stubs)
       /\ viz_edges' = DraftContains(OfType(edges, "contains"))
                       \o RollUp(Weights(GraphNodes, edges), MIN_WEIGHT)
                       \o stubs
  \* position follows _build_viz_from_frontend alone; the layout of the draft is left out
  /\ position' = << >>
  /\ do_cluster' = FALSE
  /\ pc' = "draft"
  /\ UNCHANGED <<others, dir, files, relationship_results, hld_nodes, lld_nodes, system_nodes, edges>>

NextRoll ==
  \/ BuildViz
  \/ build_viz

SpecRoll == InitRoll /\ [][NextRoll]_vars

\* ------------------------------------------------------------------------
\* The roll-up on graphs with calls inside a system and from outside any system
\* ------------------------------------------------------------------------
\* one BUSINESS node, three SYSTEM nodes under it; the first system has two
\* IMPLEMENTATION nodes, one IMPLEMENTATION node is in no system
CountBusiness ==
  [GraphNode(<<"module", "Other">>, <<"Other">>, "Module", "BUSINESS", << >>, << >>, << >>)
     EXCEPT !.children = << <<"system", "api", "1">>, <<"system", "proj", "2">>,
                            <<"system", "models", "3">> >>]
CountTwin ==
  [GraphNode(<<"class", "alpha", "api">>, <<"alpha", "Class">>, "Class", "IMPLEMENTATION",
             << >>, << <<"run">> >>, <<"alpha">>)
     EXCEPT !.parent = SystemId(RollDirs[1], 1)]
CountLoose ==
  [GraphNode(<<"function_group", "Validation", "tests">>, <<"Validation", "Functions">>,
             "Function_Group", "IMPLEMENTATION", << >>, << <<"run">> >>, << >>)
     EXCEPT !.parent = <<"module", "Other">>]
CountSystem(i) ==
  [RollSystem(i) EXCEPT !.parent = <<"module", "Other">>,
                        !.children = IF i = 1 THEN @ \o <<CountTwin.id>> ELSE @]
CountImpl == <<RollImpl(1), RollImpl(2), RollImpl(3), CountTwin, CountLoose>>

\* the calls drawn, as indices of CountImpl: both ways between two systems,
\* inside a system, from the second node of a system, from and to the node
\* outside any system
CountPairs == << <<1, 2>>, <<2, 1>>, <<1, 4>>, <<4, 2>>, <<5, 1>>, <<2, 5>>, <<2, 3>> >>

\* the edges in the order the builder stores them: the contains edges of the
\* BUSINESS node, m[k] calls edges of pair k, then the edges of the SYSTEM nodes
CountEdges(m) ==
  [k \in 1..Len(CountImpl) |-> GraphEdge(CountBusiness.id, CountImpl[k].id, "contains")]
  \o Flatten([k \in 1..Len(CountPairs) |->
        [j \in 1..m[k] |-> GraphEdge(CountImpl[CountPairs[k][1]].id,
                                     CountImpl[CountPairs[k][2]].id, "calls")]])
  \o SystemContains([i \in 1..3 |-> CountSystem(i)])

InitCount ==
  /\ Blank
  /\ NoExport
  /\ NoService
  /\ pc = "built"
  /\ dir = {4}
  /\ hld_nodes = <<CountBusiness>>
  /\ system_nodes = [i \in 1..3 |-> CountSystem(i)]
  /\ lld_nodes = CountImpl
  /\ \E m \in [1..Len(CountPairs) -> {0, 1, MaxW - 1}] : edges = CountEdges(m)

SpecCount == InitCount /\ [][NextRoll]_vars

\* ------------------------------------------------------------------------
\* Properties of the built graph and of the visualization graph
\* ------------------------------------------------------------------------
\* build_enhanced_graph has returned
Built == pc \in {"built", "viz"}

\* the sources of the contains edges into n
ContainsParents(n, es) == {e.from_node : e \in {x \in Range(es) : x.type = "contains" /\ x.to_node = n}}

RECURSIVE Descendants(_, _)
\* what the contains edges reach from the set S, S included
Descendants(S, es) ==
  LET T == S \cup {e.to_node : e \in {x \in Range(es) : x.type = "contains" /\ x.from_node \in S}}
  IN IF T = S THEN S ELSE Descendants(T, es)

Related(a, b, es) == b \in Descendants({a}, es) \/ a \in Descendants({b}, es)

RECURSIVE RootOf(_, _, _)
\* the node the parent pointers lead to from id in at most k steps; NoneId when
\* they leave the graph or do not end
RootOf(id, nodes, k) ==
  IF ~DictHas(nodes, id) THEN NoneId
  ELSE IF DictGet(nodes, id).parent = NoneId THEN id
  ELSE IF k = 0 THEN NoneId
  ELSE RootOf(DictGet(nodes, id).parent, nodes, k - 1)

\* C1: in the output of _build_viz_from_frontend every node is the target of at
\* most one contains edge, with or without implementation clustering.
C1_SingleContainsParent ==
  pc = "viz" =>
    \A n \in Range(viz_nodes) : Cardinality(ContainsParents(n.id, viz_edges)) <= 1

\* C2: in the graph build_enhanced_graph returns, the parent pointers lead from
\* every node to a BUSINESS node without parent, and every SYSTEM and
\* IMPLEMENTATION node has a parent.
C2_ParentsReachBusinessRoot ==
  Built =>
    \A n \in Range(GraphNodes) :
      /\ RootOf(n.id, GraphNodes, Len(GraphNodes)) # NoneId
      /\ LevelOf(RootOf(n.id, GraphNodes, Len(GraphNodes)), GraphNodes) = "BUSINESS"
      /\ n.level \in {"SYSTEM", "IMPLEMENTATION"} => n.parent # NoneId

\* C3: in the graph build_enhanced_graph returns, every id listed in the
\* children of a node p names an existing node whose parent is p.
C3_ChildrenPointBack ==
  Built =>
    \A p \in Range(GraphNodes) : \A c \in Range(p.children) :
      DictHas(GraphNodes, c) /\ DictGet(GraphNodes, c).parent = p.id

\* C4: the output of _build_viz_from_frontend has no contains edge from a
\* BUSINESS node b to an IMPLEMENTATION node i together with contains edges
\* b -> s and s -> i through a SYSTEM node s, clustering included.
C4_NoRedundantBusinessContains ==
  pc = "viz" =>
    \A e \in Range(viz_edges) :
      (e.type = "contains" /\ LevelOf(e.from_node, viz_nodes) = "BUSINESS"
                           /\ LevelOf(e.to_node, viz_nodes) = "IMPLEMENTATION")
      => ~\E s \in Range(viz_nodes) :
            /\ s.level = "SYSTEM"
            /\ HasEdge(viz_edges, e.from_node, s.id, "contains")
            /\ HasEdge(viz_edges, s.id, e.to_node, "contains")

\* C7: no depends_on edge, of the builder (import collapse) or of the
\* visualization (calls roll-up, cluster roll-up, stubs), joins a node to
\* itself or to one of its contains ancestors or descendants.
NoLoopNoKin(es) ==
  \A e \in Range(es) :
    e.type = "depends_on" => e.from_node # e.to_node /\ ~Related(e.from_node, e.to_node, es)

C7_DependsOnJoinsUnrelated ==
  /\ Built => NoLoopNoKin(edges)
  /\ pc = "viz" => NoLoopNoKin(viz_edges)

\* C7 witness: an output with a stub edge, a rolled-up system edge and a
\* cluster edge, from a graph with an import dependency between systems
C7_Witness ==
  /\ pc = "viz"
  /\ \E e \in Range(edges) : e.type = "depends_on"
  /\ \E e \in Range(viz_edges) : e.type = "depends_on" /\ e.from_node = ActorUser
  /\ \E e \in Range(viz_edges) :
       e.type = "depends_on" /\ e.weight >= MIN_DEPENDS_WEIGHT /\ e.from_node[1] = "system"
  /\ \E e \in Range(viz_edges) : e.type = "depends_on" /\ e.from_node[1] = "cluster"

\* --- the roll-up ---------------------------------------------------------
\* the roll-up has run: _build_viz_from_frontend or build_viz
Rolled == pc \in {"viz", "draft"}
Threshold == IF pc = "draft" THEN MIN_WEIGHT ELSE MIN_DEPENDS_WEIGHT

\* the depends_on edges of the output that leave s
DependsFrom(s) == SelectSeq(viz_edges, LAMBDA e : e.type = "depends_on" /\ e.from_node = s)

\* C5: every SYSTEM node of the output has at most 5 outgoing depends_on
\* edges, the edges to stub nodes included.
C5_AtMostFiveDepends ==
  Rolled =>
    \A n \in Range(viz_nodes) : n.level = "SYSTEM" => Len(DependsFrom(n.id)) <= TOP_N_DEPENDS

\* the candidates of source s: <<target, weight>>, the weight being the number
\* of calls edges from an implementation node of s to one of the target
CallsBetween(s, t) ==
  Cardinality({k \in 1..Len(edges) :
     /\ edges[k].type = "calls"
     /\ DictGet(GraphNodes, edges[k].from_node).parent = s
     /\ DictGet(GraphNodes, edges[k].to_node).parent = t})

Candidates(s) ==
  {<<t.id, CallsBetween(s, t.id)>> : t \in {u \in Range(system_nodes) : u.id # s /\ CallsBetween(s, u.id) > 0}}

\* the number of candidates of C placed before c: heavier, or as heavy with a smaller id
RankIn(c, C) == Cardinality({d \in C : d[2] > c[2] \/ (d[2] = c[2] /\ IdLess(d[1], c[1]))})

TopKept(s) ==
  {c \in Candidates(s) : RankIn(c, Candidates(s)) < TOP_N_DEPENDS /\ c[2] >= Threshold}

\* the rolled-up edges of the output that leave s: those to SYSTEM nodes of the graph
RolledFrom(s) == SelectSeq(DependsFrom(s), LAMBDA e : DictHas(system_nodes, e.to_node))

\* C6: the rolled-up depends_on edges of a SYSTEM node are its candidates
\* among the first 5 by (weight descending, target id ascending) whose weight
\* reaches the threshold, each once.
C6_TopNByWeightThenId ==
  Rolled =>
    \A s \in Range(system_nodes) :
      /\ {<<e.to_node, e.weight>> : e \in Range(RolledFrom(s.id))} = TopKept(s.id)
      /\ Len(RolledFrom(s.id)) = Cardinality(TopKept(s.id))

\* C6 witness: a source with more than 5 candidates, where a kept and a
\* dropped candidate have the same weight above the threshold
C6_Witness ==
  /\ Rolled
  /\ \E s \in Range(system_nodes) :
       /\ Cardinality(Candidates(s.id)) > TOP_N_DEPENDS
       /\ \E c \in TopKept(s.id), d \in Candidates(s.id) \ TopKept(s.id) :
            c[2] = d[2] /\ d[2] >= Threshold
       /\ Len(RolledFrom(s.id)) = TOP_N_DEPENDS

\* --- reproducibility -----------------------------------------------------
\* C8: two runs of the pipeline on one directory give the same nodes and
\* edges, whatever the order of the file system and of the hash sets.
C8_RunsAgree ==
  (pc = "viz" /\ run = 2) => (viz_nodes = prev_nodes /\ viz_edges = prev_edges)

\* --- analyze_codebase ------------------------------------------------------
\* what validation must reject: no directory, or a directory without analyzable file
Unanalyzable == path_kind # "dir" \/ \A f \in dir : ~should_include_file(f)

\* every discovered file parses
AllParse == \A f \in dir : should_include_file(f) => FileTab[f].parses

\* C9: on a valid directory whose discovered files all parse, analyze_codebase
\* returns success with a graph, total_files = successful_parses = the number
\* of discovered files and a coverage of 100, also when the graph has nodes.
C9_SuccessOnValidDirectory ==
  (pc = "returned" /\ ~Unanalyzable /\ AllParse) =>
    /\ result.success
    /\ result.graph # "None"
    /\ result.statistics =
         [total_files |-> Cardinality({f \in dir : should_include_file(f)}),
          successful_parses |-> Cardinality({f \in dir : should_include_file(f)}),
          coverage_percentage |-> 100]

\* C10: on a path that is missing, is no directory or holds no analyzable
\* file, analyze_codebase returns the error result 'Invalid codebase path'
\* with no graph, and nothing is parsed or built.
C10_InvalidPathRejected ==
  (pc # "analyze" /\ Unanalyzable) =>
    /\ pc = "returned"
    /\ result = [success |-> FALSE, error |-> "Invalid codebase path", graph |-> "None",
                 statistics |-> << >>]
    /\ files = << >>
    /\ GraphNodes = << >>
    /\ edges = << >>

\* C10 witness: analyze_codebase has returned on a directory that holds
\* files, none of them analyzable
C10_Witness ==
  /\ pc = "returned"
  /\ path_kind = "dir"
  /\ dir # {}
  /\ Unanalyzable
  /\ result.error = "Invalid codebase path"

\* ------------------------------------------------------------------------
\* Properties of parse_codebase
\* ------------------------------------------------------------------------
\* a parse_codebase call has returned
Returned == pc \in {"once", "twice"}

\* C11: a discovered file that fails to parse does not stop the others: every
\* discovered file is either in parsed_files or in failed_files, the failed one
\* is counted in total_files, listed in failed_files, absent from parsed_files,
\* and the result says success
C11_FailedFileReported ==
  Returned =>
    \A f \in Range(files) :
      ~Parses(f, broken) =>
        /\ parsing_result.success
        /\ parsing_result.parsing_stats.total_files = Len(files)
        /\ f \in Range(parsing_result.failed_files)
        /\ f \notin Range(parsing_result.parsed_files)
        /\ \A g \in Range(files) :
             g \in Range(parsing_result.parsed_files) \cup Range(parsing_result.failed_files)

C13_CallsIndependent ==
  Returned => parsing_result = _create_parsing_result(ParsedWith(NewParser, files, broken))

\* --- naming service ----------------------------------------------------------
\* a and b are the same nodes but for their names
SameStructure(a, b) ==
  /\ Len(a) = Len(b)
  /\ \A i \in 1..Len(a) : [a[i] EXCEPT !.name = b[i].name] = b[i]

Reverse(s) == [i \in 1..Len(s) |-> s[Len(s) + 1 - i]]

\* C16: the nodes of the input listed in the opposite order get the same
\* coordinates.
C16_OrderIndependent ==
  pc = "viz" => Range(Positions(Reverse(GraphNodes), edges, dir)) = Range(position)

\* anchors_px of the rows of a level
Anchors(level) == {rowvals[r] : r \in bands[level]}

\* C17: the y of every node is an anchor of a row of its level, and no y is
\* shared by two levels.
C17_RowsOfLevel ==
  pc = "viz" =>
    /\ \A i \in 1..Len(viz_nodes) : position[i].y \in Anchors(viz_nodes[i].level)
    /\ \A i, j \in 1..Len(viz_nodes) :
         viz_nodes[i].level # viz_nodes[j].level => position[i].y # position[j].y

\* the direct children of the i-th node
Kids(i) ==
  {j \in 1..Len(viz_nodes) : HasEdge(viz_edges, viz_nodes[i].id, viz_nodes[j].id, "contains")}

\* C18: a BUSINESS or SYSTEM node with children is at the midpoint of the
\* smallest and the largest x of its children.
C18_ParentCentred ==
  pc = "viz" =>
    \A i \in 1..Len(viz_nodes) :
      (viz_nodes[i].level \in {"BUSINESS", "SYSTEM"} /\ Kids(i) # {}) =>
        \E lo, hi \in Kids(i) :
          /\ \A j \in Kids(i) : position[lo].x <= position[j].x /\ position[j].x <= position[hi].x
          /\ 2 * position[i].x = position[lo].x + position[hi].x

\* C19: no two nodes share a position.
C19_NoOverlap ==
  pc = "viz" =>
    \A i, j \in 1..Len(viz_nodes) :
      i # j => <<position[i].x, position[i].y>> # <<position[j].x, position[j].y>>

\* --- validation ----------------------------------------------------------------
\* n breaks an invariant of the graph: two contains parents, a contains cycle
\* through it, a parent or a child that is no node, an edge of it with a
\* missing end
Violating(n, nodes, es) ==
  \/ Cardinality(ContainsParents(n.id, es)) > 1
  \/ \E p \in ContainsParents(n.id, es) : p \in Descendants({n.id}, es)
  \/ (n.parent # NoneId /\ ~DictHas(nodes, n.parent))
  \/ \E c \in Range(n.children) : ~DictHas(nodes, c)
  \/ \E e \in Range(es) : /\ n.id \in {e.from_node, e.to_node}
                          /\ ~(DictHas(nodes, e.from_node) /\ DictHas(nodes, e.to_node))

\* C15: when analyze_codebase has returned and a node of the built graph
\* breaks an invariant, validation_issues is not empty, and the graph that is
\* returned holds no such node.
C15_ViolationsReported ==
  pc = "returned" =>
    /\ (\E n \in Range(GraphNodes) : Violating(n, GraphNodes, edges)) => validation_issues # << >>
    /\ result.graph # "None" => \A n \in Range(GraphNodes) : ~Violating(n, GraphNodes, edges)

\* --- semantic cache ----------------------------------------------------------
\* the call that made the entry a later call was served from: the last earlier
\* call with the same key that was not served from the cache
Creator(i) ==
  CHOOSE j \in 1..(i - 1) :
    /\ ~history[j].hit
    /\ _generate_cache_key(history[j].file_path, history[j].symbols)
         = _generate_cache_key(history[i].file_path, history[i].symbols)

SameRequest(a, b) ==
  /\ a.file_path = b.file_path
  /\ a.file_content = b.file_content
  /\ a.symbols = b.symbols

\* C20: the semantic cache is content-addressed: in any sequence of
\* analyze_file_semantics calls, a call is served from the cache only when its
\* path, content and symbols equal those of the call that made the entry; every
\* call returns a value, the one an analyzer with an empty cache returns for the
\* same arguments; and a request identical to an earlier one adds no entry.
C20_ContentAddressed ==
  \A i \in 1..Len(history) :
    /\ history[i].hit => SameRequest(history[i], history[Creator(i)])
    /\ history[i].outcome.raised = ""
    /\ history[i].outcome = history[i].fresh
    /\ \A j \in 1..(i - 1) :
         SameRequest(history[i], history[j])
           => history[i].entries = (IF i = 1 THEN 0 ELSE history[i - 1].entries)

\* --- the counters of the roll-up ------------------------------------------------
RECURSIVE Up(_, _)
\* the nodes k contains edges above the nodes of S
Up(S, k) ==
  IF k = 0 THEN S
  ELSE Up({e.from_node : e \in {x \in Range(edges) : x.type = "contains" /\ x.to_node \in S}}, k - 1)

\* no node of the graphs built is deeper than this under a BUSINESS node
Depths == 1..3

SystemsAt(a, k) == {s \in Up({a}, k) : LevelOf(s, GraphNodes) = "SYSTEM"}

\* the SYSTEM ancestors of a that are nearest to it, {} when it has none
NearestSystems(a) ==
  IF \A k \in Depths : SystemsAt(a, k) = {} THEN {}
  ELSE SystemsAt(a, CHOOSE k \in Depths :
                      SystemsAt(a, k) # {} /\ \A j \in 1..(k - 1) : SystemsAt(a, j) = {})

\* for every calls edge between IMPLEMENTATION nodes, in edge order, the nearest
\* SYSTEM ancestors of its two ends
CallEnds ==
  With(SelectSeq(edges, LAMBDA e : /\ e.type = "calls"
                                   /\ LevelOf(e.from_node, GraphNodes) = "IMPLEMENTATION"
                                   /\ LevelOf(e.to_node, GraphNodes) = "IMPLEMENTATION"),
    LAMBDA c : [k \in 1..Len(c) |->
                  <<NearestSystems(c[k].from_node), NearestSystems(c[k].to_node)>>])

\* weights.get((S, T), 0)
Counter(ws, S, T) ==
  With(SelectSeq(ws, LAMBDA x : x[1] = S /\ x[2] = T), LAMBDA it :
    IF it = << >> THEN 0 ELSE it[1][3])

RECURSIVE SumOfCounters(_)
SumOfCounters(ws) == IF ws = << >> THEN 0 ELSE Head(ws)[3] + SumOfCounters(Tail(ws))

\* C22: after the roll-up, the counter of an ordered pair (S, T) of distinct
\* SYSTEM nodes is the number of calls edges between IMPLEMENTATION nodes whose
\* source has S and whose target has T as nearest SYSTEM ancestor; the calls
\* edges counted nowhere are those with an end that has no SYSTEM ancestor or
\* with the same ancestor at both ends.
C22_CounterCountsCalls ==
  Rolled =>
    With(Weights(GraphNodes, edges), LAMBDA ws :
    With(CallEnds, LAMBDA ends :
      /\ \A s, t \in Range(system_nodes) :
           s.id # t.id =>
             Counter(ws, s.id, t.id)
               = Cardinality({k \in 1..Len(ends) : s.id \in ends[k][1] /\ t.id \in ends[k][2]})
      /\ SumOfCounters(ws)
           = Cardinality({k \in 1..Len(ends) :
                            ends[k][1] # {} /\ ends[k][2] # {} /\ ends[k][1] # ends[k][2]})))

\* C22 witness: a counter of two or more fed by two IMPLEMENTATION nodes of one
\* system, next to a calls edge inside a system and one from a node outside any
C22_Witness ==
  /\ Rolled
  /\ hld_nodes # << >>
  /\ \E x \in Range(Weights(GraphNodes, edges)) :
       /\ x[3] >= 2
       /\ Cardinality({e.from_node : e \in {c \in Range(edges) :
                         /\ c.type = "calls"
                         /\ NearestSystems(c.from_node) = {x[1]}
                         /\ NearestSystems(c.to_node) = {x[2]}}}) = 2
  /\ \E k \in 1..Len(CallEnds) : CallEnds[k][1] # {} /\ CallEnds[k][1] = CallEnds[k][2]
  /\ \E k \in 1..Len(CallEnds) : CallEnds[k][1] = {} /\ CallEnds[k][2] # {}

\* --- the nodes of the builder ---------------------------------------------------
\* _create_enhanced_hld_nodes has run
HasNodes == pc \notin {"start", "parsed", "mapped"}

\* the BUSINESS nodes listing f, by index
ListedBy(f) == {b \in 1..Len(hld_nodes) : f \in Range(hld_nodes[b].files)}

\* C23: the BUSINESS nodes partition the analysed files: every parsed file is
\* in the files list of exactly one BUSINESS node, a file of no specific bucket
\* being in 'Other', and the files list of a BUSINESS node is the list of the
\* files of its bucket.
C23_FilesPartitioned ==
  HasNodes =>
    /\ \A f \in Range(files) :
         /\ Cardinality(ListedBy(f)) = 1
         /\ \A b \in ListedBy(f) : hld_nodes[b].name = <<BucketOf(f)>>
    /\ \A b \in 1..Len(hld_nodes) :
         hld_nodes[b].files = SelectSeq(files, LAMBDA f : <<BucketOf(f)>> = hld_nodes[b].name)

\* index of the first BUSINESS node, in iteration order, whose files list has
\* the largest intersection with fs
LargestOverlap(fs) ==
  CHOOSE i \in 1..Len(hld_nodes) :
    /\ \A j \in 1..Len(hld_nodes) : Overlap(fs, hld_nodes[j]) <= Overlap(fs, hld_nodes[i])
    /\ \A j \in 1..(i - 1) : Overlap(fs, hld_nodes[j]) < Overlap(fs, hld_nodes[i])

\* s is attached to the BUSINESS node b and to no other: edge, parent, children
AttachedTo(s, b) ==
  /\ s.parent = hld_nodes[b].id
  /\ s.id \in Range(hld_nodes[b].children)
  /\ \A c \in 1..Len(hld_nodes) :
       (\E e \in Range(edges) :
          e.type = "contains" /\ e.from_node = hld_nodes[c].id /\ e.to_node = s.id) <=> c = b

\* C24: every SYSTEM node is attached, by a contains edge, its parent field and
\* the children list of the parent, to the BUSINESS node whose files list has
\* the largest intersection with the files of its cluster, the first such node
\* in iteration order.
C24_AttachedToLargestOverlap ==
  (Built /\ hld_nodes # << >>) =>
    \A s \in Range(system_nodes) : AttachedTo(s, LargestOverlap(s.files))

\* the standalone functions of f the builder groups by purpose
Standalone(f) ==
  SelectSeq(FileTab[f].functions,
            LAMBDA fn : ~_should_skip_low_level_component(fn) /\ ~_is_function_in_class(fn, f))

\* the IMPLEMENTATION nodes whose files list is exactly f
NodesOfFile(f) == {n \in Range(lld_nodes) : n.files = <<f>>}

\* C25: IMPLEMENTATION nodes are per file: for every parsed file, every purpose
\* with a standalone function of the file has a node of its own whose files
\* list is that file, and so has every class of the file that keeps a method;
\* two nodes of different files are never one node, also when the files have
\* the same name in different directories.
C25_NodesPerFile ==
  HasNodes =>
    \A f \in Range(files) :
      /\ \A g \in Range(PurposeGroups) :
           (\E fn \in Range(Standalone(f)) : PurposeOf(fn) = g)
             => Cardinality({n \in NodesOfFile(f) :
                               n.type = "Function_Group" /\ n.name = <<g, "Functions">>}) = 1
      /\ \A n \in Range(ClassNodes(f, FileTab[f].stem)) :
           Cardinality({m \in NodesOfFile(f) : m.type = "Class" /\ m.classes = n.classes}) = 1

\* what the files of FileTab declare inside their classes: the methods of class
\* c of file f; the other functions of the file are top-level functions
\* (PythonSymbolVisitor lists both in 'functions', by name alone)
MethodsOf(f, c) ==
  IF f = 1 /\ c = "alpha" THEN {<<"run">>}
  ELSE IF f = 2 /\ c = "beta" THEN {<<"render">>}
  ELSE IF f = 6 /\ c = "gamma" THEN {<<"get", "item">>, <<"compute">>}
  ELSE {}

\* C26: the functions list of an IMPLEMENTATION node made for a class holds
\* only methods declared inside that class: no top-level function of the file
\* and no method of another class.
C26_ClassNodeHoldsOwnMethods ==
  HasNodes =>
    \A n \in Range(lld_nodes) :
      n.type = "Class" =>
        \A c \in Range(n.classes), f \in Range(n.files) :
          Range(n.functions) \subseteq MethodsOf(f, c)

\* --- map_relationships ----------------------------------------------------------
\* map_relationships has returned
Mapped == pc \notin {"start", "parsed"}

\* the number of CALLS relationships recorded from files[i] to files[j]
CallsRecorded(i, j) ==
  Len(SelectSeq(relationship_results[i], LAMBDA r : r.type = "calls" /\ r.target = files[j]))

\* a and b declare a function of the same name
ShareFunction(a, b) == \E fn \in Range(FileTab[a].functions) : fn \in Range(FileTab[b].functions)

\* C27: map_relationships records a CALLS relationship from file A to file B
\* exactly when A and B are different files that declare a function of the
\* same name; the relation is irreflexive and symmetric, and an ordered pair
\* of files is recorded at most once.
C27_CallsIffSharedName ==
  Mapped =>
    \A i, j \in 1..Len(files) :
      /\ CallsRecorded(i, j) = (IF i # j /\ ShareFunction(files[i], files[j]) THEN 1 ELSE 0)
      /\ CallsRecorded(i, i) = 0
      /\ CallsRecorded(i, j) = CallsRecorded(j, i)

\* C27 witness: two files recorded as calling each other, next to a file with
\* functions that shares none with them
C27_Witness ==
  /\ Mapped
  /\ \E i, j, k \in 1..Len(files) :
       /\ i # j /\ CallsRecorded(i, j) = 1 /\ CallsRecorded(j, i) = 1
       /\ FileTab[files[k]].functions # << >>
       /\ CallsRecorded(i, k) = 0 /\ CallsRecorded(k, j) = 0

====
